---- MODULE Spec2Model ----
(***************************************************************************)
(* Verification model of the Arachne crawl/index core.                     *)
(*                                                                         *)
(* The TaskQueue of src/arachne/task.py is modelled record by record: the  *)
(* sites database and the per-site task databases are Berkeley DB B-trees  *)
(* with unsorted duplicates, i.e. sequences ordered by key (a zero-filled  *)
(* decimal string, compared as a string) and by insertion within a key.    *)
(*                                                                         *)
(* The ResultQueue of src/arachne/result.py is modelled the same way, with *)
(* the one key all its records have.  The specifications of the task      *)
(* queue keep the listings that await the processor as a set (visited);    *)
(* the specifications of the result queue keep the queue itself, record by *)
(* record, and leave the task queue as it was constructed.                 *)
(***************************************************************************)
EXTENDS Integers, Sequences, FiniteSets, Bags, TLC

VARIABLES
    now,          \* int(time.time())
    sites_info,   \* ids of the sites the open queue was constructed with
    new_sites,    \* history: the sites the last TaskQueue.__init__ found no
                  \* database of, until get() returns a task
    db_files,     \* ids of the sites whose <site_id>.db exists in db_home
    sites_db,     \* sites.db: sequence of [key, site_id]
    task_dbs,     \* <site_id>.db: site_id -> sequence of [key, task, ord]
    executing,    \* the tasks the SiteCrawler threads are executing (a bag)
    reporting,    \* the tasks whose listing is put and that are not reported
    visited,      \* tasks reported done whose listing awaits the processor
    ended,        \* number of SiteCrawler threads ended by an exception
    last_report,  \* history: site_id -> the last report_* call for the site
    expected_len, \* history: seeded + put_new + put_visited - report_done
    rq_sites_info,  \* ids of the sites the open ResultQueue has databases of
    rq_sites_db,    \* the ResultQueue's sites.db: sequence of [key, site_id]
    rq_result_dbs,  \* its <site_id>.db: site_id -> sequence of [key, value]
    rq_got,         \* the result the processor got and has not reported
    rq_put_order,   \* history: the results put and not reported done, in
                    \* the order of the puts (a failed result is put again)
    index,        \* the Xapian index: the documents it holds (a bag)
    calls,        \* history: the calls that the last ProtocolHandler.execute
                  \* or IndexProcessor.process made on the two queues
    threads,      \* thread -> its place in run() and its _running flag
    daemon,       \* ArachneDaemon.run: its place, its _running flag and
                  \* the queues it has closed
    pqueue,       \* a PriorityQueue of aracne/utils/persist.py: its database,
                  \* the last call and the items it should hold (history)
    fqueue        \* a Queue of aracne/utils/persistent.py: its database, its
                  \* counter, the last call and the items it should hold

\* the state of the result queue and of its user
rq_vars == <<rq_sites_info, rq_sites_db, rq_result_dbs, rq_got, rq_put_order>>

\* the index and the calls made on the queues
ix_vars == <<index, calls>>

\* the threads of the daemon
th_vars == <<threads, daemon>>

\* the persistent queues of aracne/utils
pq_vars == <<pqueue, fqueue>>

vars == <<now, sites_info, new_sites, db_files, sites_db, task_dbs, executing,
          reporting, visited, ended, last_report, expected_len, rq_sites_info,
          rq_sites_db, rq_result_dbs, rq_got, rq_put_order, index, calls,
          threads, daemon, pqueue, fqueue>>

-----------------------------------------------------------------------------
(* Bounds of the model. *)

\* number of seconds the clock may advance
MaxTime == 2

\* largest number of tasks (queued or awaiting the processor) with which a
\* new task is put or, in the crawl, a listing is put
MaxQueue == 2

\* number of records sites.db may hold when the configuration is changed
MaxSitesLen == 3

\* number of seconds the clock may advance while a directory is revisited
MaxVisitTime == 20

\* number of records the result queue's sites.db may hold when a result is
\* put
MaxResults == 4

\* number of items put in a persistent queue of aracne/utils
MaxPuts == 5

-----------------------------------------------------------------------------
(* Configuration: the sites of the configuration file and their options. *)

Sites == {"s1", "s2"}

Crawlers == {"c1", "c2"}

\* the options every site of the configuration carries
site_options ==
    [s \in Sites |->
        [request_wait         |-> IF s = "s1" THEN 1 ELSE 2,
         error_dir_wait       |-> 2,
         error_site_wait      |-> 2,
         default_revisit_wait |-> 2,
         min_revisit_wait     |-> 1,
         max_revisit_wait     |-> 4]]

\* the configurations the daemon is run with: site s2 is removed from the
\* configuration file and added to it again
Configurations == {{"s1"}, Sites}

\* URL paths as sequences of names; the root directory is the empty path
RootUrl == << >>

\* the directories the processor finds
NewUrls == {<<"a">>}

\* the clock value at construction of the first queue
Epoch == 8

KeyLength == 19

REVISITS == 5

\* the exception get() raises, as a value
EmptyQueue == [raised |-> "EmptyQueue"]

NoTask == [raised |-> "NoTask"]

-----------------------------------------------------------------------------
(* Keys: str(int(time.time()) + seconds).zfill(key_length), compared as      *)
(* Python strings.  A string of decimal digits is held as the number of its *)
(* leading "0" characters and the digits that follow them.                  *)

RECURSIVE Digits(_)
\* the decimal digits of n > 0, most significant first
Digits(n) == IF n < 10 THEN <<n>> ELSE Append(Digits(n \div 10), n % 10)

\* str(n) for n >= 0
str(n) ==
    IF n = 0 THEN [zeros |-> 1, digits |-> << >>]
    ELSE [zeros |-> 0, digits |-> Digits(n)]

\* len(s)
StrLen(s) == s.zeros + Len(s.digits)

\* s.zfill(width): "0" characters are added on the left up to width
zfill(s, width) ==
    IF StrLen(s) >= width THEN s
    ELSE [s EXCEPT !.zeros = width - Len(s.digits)]

\* x < y on sequences of digits: the first difference decides, a proper
\* prefix is smaller
SeqLT(x, y) ==
    \E i \in 1..Len(y) :
        /\ \A j \in 1..(i - 1) : j <= Len(x) /\ x[j] = y[j]
        /\ \/ i > Len(x)
           \/ i <= Len(x) /\ x[i] < y[i]

\* a < b on Python strings of digits. With as many leading zeros the rest
\* decides; otherwise the strings differ where the shorter run of zeros
\* ends, unless the string with the shorter run ends there (a proper prefix)
StrLT(a, b) ==
    IF a.zeros = b.zeros THEN SeqLT(a.digits, b.digits)
    ELSE IF a.zeros < b.zeros THEN a.digits = << >>
    ELSE b.digits # << >>

StrGT(a, b) == StrLT(b, a)

_get_key(seconds) == zfill(str(now + seconds), KeyLength)

-----------------------------------------------------------------------------
(* The persistent queues of aracne/utils: a Berkeley DB B-tree that holds   *)
(* one record per key (neither database is opened with DB_DUP), kept in the *)
(* order of its keys.                                                       *)

\* the priorities the items are put with
Priorities == {0, 9, 10}

\* the exception of both modules, as a value
QueueError == [raised |-> "QueueError"]

\* int('counter'), as a value
ValueError == [raised |-> "ValueError"]

\* the characters of a string of digits
chars(s) ==
    [i \in 1..StrLen(s) |-> IF i <= s.zeros THEN 0 ELSE s.digits[i - s.zeros]]

\* long(key), int(key)
long(key) ==
    LET RECURSIVE value(_)
        value(d) == IF d = << >> THEN 0
                    ELSE 10 * value(SubSeq(d, 1, Len(d) - 1)) + d[Len(d)]
    IN  value(key.digits)

\* pickle.dumps(item, 2) and pickle.loads(value) of an integer
pickle_dumps(item) == [protocol |-> 2, int |-> item]

pickle_loads(value) == value.int

\* persist.PriorityQueue._compare_keys(key1, key2)
_compare_keys(key1, key2) ==
    LET len1 == StrLen(key1)
        len2 == StrLen(key2)
        c1 == chars(key1)
        c2 == chars(key2)
        diff == {i \in 1..len1 : c1[i] # c2[i]}
    IN  IF len1 > len2 THEN 1
        ELSE IF len1 < len2 THEN -1
        ELSE IF diff = {} THEN 0
        ELSE LET i == CHOOSE k \in diff : \A j \in diff : k <= j
             IN  IF c1[i] < c2[i] THEN -1 ELSE 1

\* the comparison of a database opened without set_bt_compare: the keys as
\* byte strings
default_compare(key1, key2) ==
    IF key1 = key2 THEN 0 ELSE IF StrLT(key1, key2) THEN -1 ELSE 1

\* DB.put(key, value) and db[key] = value on a B-tree without duplicates:
\* the record of the key is replaced when there is one
bt_put(db, compare(_, _), key, value) ==
    IF \E i \in 1..Len(db) : compare(db[i].key, key) = 0
    THEN [i \in 1..Len(db) |->
             IF compare(db[i].key, key) = 0
             THEN [key |-> db[i].key, value |-> value]
             ELSE db[i]]
    ELSE LET n == Cardinality({i \in 1..Len(db) :
                                  compare(db[i].key, key) < 0})
         IN  SubSeq(db, 1, n) \o <<[key |-> key, value |-> value]>>
                 \o SubSeq(db, n + 1, Len(db))

\* persist.PriorityQueue._put(item, priority)
PriorityQueue_put(db, item, priority) ==
    bt_put(db, _compare_keys, str(priority), pickle_dumps(item))

\* persist.PriorityQueue._head(): the tuple returned, or the exception
PriorityQueue_head(db) ==
    IF Len(db) = 0 THEN QueueError
    ELSE [item |-> pickle_loads(db[1].value), priority |-> long(db[1].key)]

\* persist.PriorityQueue._get(): what is returned and the database left
PriorityQueue_get(db) ==
    [result |-> PriorityQueue_head(db),
     db |-> IF Len(db) = 0 THEN db ELSE Tail(db)]

\* persistent.Queue.put(item): PriorityQueue._put(item, self._counter); the
\* record of the counter is not held in db
Queue_put(q, item) ==
    [db |-> bt_put(q.db, default_compare, zfill(str(q.counter), KeyLength),
                   pickle_dumps(item)),
     counter |-> q.counter + 1]

\* persistent.Queue.get(): with items counted and none stored the first key
\* is that of the counter, which is deleted, saved again one less, and
\* int(key) raises
Queue_get(q) ==
    IF q.counter = 0
    THEN [result |-> QueueError, db |-> q.db, counter |-> q.counter]
    ELSE IF Len(q.db) = 0
    THEN [result |-> ValueError, db |-> q.db, counter |-> q.counter - 1]
    ELSE [result |-> [item |-> pickle_loads(q.db[1].value)],
          db |-> Tail(q.db), counter |-> q.counter - 1]

\* the items that were put and not returned, as the queue should return
\* them: by priority, and in the order of the puts within one priority
expected_put(expected, item, priority) ==
    LET n == Cardinality({i \in 1..Len(expected) :
                             expected[i].priority <= priority})
    IN  SubSeq(expected, 1, n) \o <<[item |-> item, priority |-> priority]>>
            \o SubSeq(expected, n + 1, Len(expected))

NoCall ==
    [op |-> "none", result |-> [item |-> 0], len |-> 0, before |-> << >>]

\* PriorityQueue(filename) on a new file
NewPriorityQueue ==
    [db |-> << >>, expected |-> << >>, puts |-> 0, last |-> NoCall]

\* Queue(filename) on a new file
NewQueue ==
    [db |-> << >>, counter |-> 0, expected |-> << >>, puts |-> 0,
     last |-> NoCall]

-----------------------------------------------------------------------------
(* CrawlTask *)

CrawlTask(site_id, url) ==
    [site_id |-> site_id, url |-> url, revisit_wait |-> 0,
     revisit_count |-> -1, change_count |-> 0]

\* a faulty variant: a change is counted on the first visit too
report_visit_first_counts(task, changed) ==
    [task EXCEPT
        !.change_count = IF changed THEN @ + 1 ELSE @,
        !.revisit_count = @ + 1]

report_visit(task, changed) ==
    [task EXCEPT
        !.change_count = IF task.revisit_count >= 0 /\ changed
                         THEN @ + 1 ELSE @,
        !.revisit_count = @ + 1]

\* a faulty variant: the changes seen are not forgotten
reset_counters_keep_changes(task) ==
    [task EXCEPT !.revisit_count = 0]

reset_counters(task) ==
    [task EXCEPT !.revisit_count = 0, !.change_count = 0]

-----------------------------------------------------------------------------
(* Berkeley DB B-tree with DB_DUP: records ordered by key, duplicates of a  *)
(* key in insertion order.                                                  *)

\* a faulty variant: a record goes before the records with its key
db_put_before(db, key, rec) ==
    LET n == Cardinality({i \in 1..Len(db) : StrLT(db[i].key, key)})
    IN  SubSeq(db, 1, n) \o <<rec>> \o SubSeq(db, n + 1, Len(db))

\* DB.put(key, value): the record goes after every record whose key is not
\* greater than its key
db_put(db, key, rec) ==
    LET n == Cardinality({i \in 1..Len(db) : ~StrGT(db[i].key, key)})
    IN  SubSeq(db, 1, n) \o <<rec>> \o SubSeq(db, n + 1, Len(db))

\* cursor.delete() at position i
db_delete(db, i) == SubSeq(db, 1, i - 1) \o SubSeq(db, i + 1, Len(db))

\* the task database after cursor.first(); cursor.delete(): the records left
\* keep their order (ord is the insertion rank among the records present)
task_db_delete_first(db) ==
    [i \in 1..(Len(db) - 1) |->
        [db[i + 1] EXCEPT !.ord = IF @ > db[1].ord THEN @ - 1 ELSE @]]

\* the values of sites.db
sites_db_values(db) == {db[i].site_id : i \in 1..Len(db)}

-----------------------------------------------------------------------------
(* TaskQueue *)

\* TaskQueue._put(task, seconds): the per-site databases after the put
_put(dbs, task, seconds) ==
    [dbs EXCEPT ![task.site_id] =
        db_put(@, _get_key(seconds),
               [key |-> _get_key(seconds), task |-> task, ord |-> Len(@) + 1])]

\* len(TaskQueue)
tq_len == LET RECURSIVE Sum(_)
              Sum(S) == IF S = {} THEN 0
                        ELSE LET s == CHOOSE x \in S : TRUE
                             IN  Len(task_dbs[s]) + Sum(S \ {s})
          IN  Sum(sites_info)

\* math.log at the arguments the estimator takes, in millionths:
\* -ln((visits - changes + 0.5) / (visits + 0.5))
NegLogMicro(visits, changes) ==
    CASE visits = 5 /\ changes = 1 -> 200671
      [] visits = 5 /\ changes = 2 -> 451985
      [] visits = 5 /\ changes = 3 -> 788457
      [] visits = 5 /\ changes = 4 -> 1299283
      [] visits = 5 /\ changes = 5 -> 2397895

\* int(round(x)) for x = num / den >= 0: halves round away from zero
RoundDiv(num, den) == (2 * num + den) \div (2 * den)

\* a faulty variant: without a change the wait grows by the visits
_estimate_revisit_wait_sum(task) ==
    LET changes == task.change_count
        visits  == task.revisit_count
        wait    == task.revisit_wait
    IN  IF changes > 0
        THEN RoundDiv(wait * 1000000, NegLogMicro(visits, changes))
        ELSE wait + visits

\* a faulty variant: the quotient is truncated, not rounded
_estimate_revisit_wait_trunc(task) ==
    LET changes == task.change_count
        visits  == task.revisit_count
        wait    == task.revisit_wait
    IN  IF changes > 0
        THEN (wait * 1000000) \div NegLogMicro(visits, changes)
        ELSE wait * visits

_estimate_revisit_wait(task) ==
    LET changes == task.change_count
        visits  == task.revisit_count
        wait    == task.revisit_wait
    IN  IF changes > 0
        THEN RoundDiv(wait * 1000000, NegLogMicro(visits, changes))
        ELSE wait * visits

Min2(a, b) == IF a < b THEN a ELSE b

Max2(a, b) == IF a > b THEN a ELSE b

\* a faulty variant: the estimator fires one visit late
visited_task_late(task, changed) ==
    LET site_info == site_options[task.site_id]
        t1 == report_visit(task, changed)
    IN  IF t1.revisit_count = 0
        THEN [t1 EXCEPT !.revisit_wait = site_info.default_revisit_wait]
        ELSE IF t1.revisit_count > REVISITS
        THEN reset_counters(
                 [t1 EXCEPT !.revisit_wait =
                     Min2(site_info.max_revisit_wait,
                          Max2(site_info.min_revisit_wait,
                               _estimate_revisit_wait(t1)))])
        ELSE t1

\* the task put_visited() stores
visited_task(task, changed) ==
    LET site_info == site_options[task.site_id]
        t1 == report_visit(task, changed)
    IN  IF t1.revisit_count = 0
        THEN [t1 EXCEPT !.revisit_wait = site_info.default_revisit_wait]
        ELSE IF t1.revisit_count >= REVISITS
        THEN reset_counters(
                 [t1 EXCEPT !.revisit_wait =
                     Min2(site_info.max_revisit_wait,
                          Max2(site_info.min_revisit_wait,
                               _estimate_revisit_wait(t1)))])
        ELSE t1

\* TaskQueue.put_new(task)
put_new(dbs, task) == _put(dbs, task, 0)

\* a faulty variant: the key is made of the wait the task came with
put_visited_old_wait(dbs, task, changed) ==
    LET t == visited_task(task, changed) IN _put(dbs, t, task.revisit_wait)

\* TaskQueue.put_visited(task, changed)
put_visited(dbs, task, changed) ==
    LET t == visited_task(task, changed) IN _put(dbs, t, t.revisit_wait)

RECURSIVE get_loop_undue(_, _)
\* a faulty variant: the head task is returned whether it is due or not
get_loop_undue(sdb, i) ==
    LET site_priority == sdb[i].key
        site_id == sdb[i].site_id
    IN  IF StrGT(site_priority, _get_key(0))
        THEN [sites_db |-> sdb, ret |-> EmptyQueue]
        ELSE IF site_id \notin sites_info
        THEN LET rest == db_delete(sdb, i)
             IN  IF i > Len(rest)
                 THEN [sites_db |-> rest, ret |-> EmptyQueue]
                 ELSE get_loop_undue(rest, i)
        ELSE IF task_dbs[site_id] = << >>
        THEN IF i + 1 > Len(sdb)
             THEN [sites_db |-> sdb, ret |-> EmptyQueue]
             ELSE get_loop_undue(sdb, i + 1)
        ELSE [sites_db |-> db_delete(sdb, i), ret |-> task_dbs[site_id][1].task]

RECURSIVE get_loop_no_skip(_, _)
\* a faulty variant: EmptyQueue is raised at the first site whose head task is
\* not due
get_loop_no_skip(sdb, i) ==
    LET site_priority == sdb[i].key
        site_id == sdb[i].site_id
    IN  IF StrGT(site_priority, _get_key(0))
        THEN [sites_db |-> sdb, ret |-> EmptyQueue]
        ELSE IF site_id \notin sites_info
        THEN LET rest == db_delete(sdb, i)
             IN  IF i > Len(rest)
                 THEN [sites_db |-> rest, ret |-> EmptyQueue]
                 ELSE get_loop_no_skip(rest, i)
        ELSE IF task_dbs[site_id] = << >>
        THEN IF i + 1 > Len(sdb)
             THEN [sites_db |-> sdb, ret |-> EmptyQueue]
             ELSE get_loop_no_skip(sdb, i + 1)
        ELSE IF StrGT(task_dbs[site_id][1].key, _get_key(0))
        THEN [sites_db |-> sdb, ret |-> EmptyQueue]
        ELSE [sites_db |-> db_delete(sdb, i), ret |-> task_dbs[site_id][1].task]

RECURSIVE get_loop_delete_empty(_, _)
\* a faulty variant: the id of a configured site without tasks is deleted
get_loop_delete_empty(sdb, i) ==
    LET site_priority == sdb[i].key
        site_id == sdb[i].site_id
    IN  IF StrGT(site_priority, _get_key(0))
        THEN [sites_db |-> sdb, ret |-> EmptyQueue]
        ELSE IF site_id \notin sites_info
        THEN \* old site: sites_cursor.delete(); sites_cursor.next()
             LET rest == db_delete(sdb, i)
             IN  IF i > Len(rest)
                 THEN [sites_db |-> rest, ret |-> EmptyQueue]
                 ELSE get_loop_delete_empty(rest, i)
        ELSE IF task_dbs[site_id] = << >>
        THEN \* the id of the site is deleted, as that of an old site
             LET rest == db_delete(sdb, i)
             IN  IF i > Len(rest)
                 THEN [sites_db |-> rest, ret |-> EmptyQueue]
                 ELSE get_loop_delete_empty(rest, i)
        ELSE IF StrGT(task_dbs[site_id][1].key, _get_key(0))
        THEN IF i + 1 > Len(sdb)
             THEN [sites_db |-> sdb, ret |-> EmptyQueue]
             ELSE get_loop_delete_empty(sdb, i + 1)
        ELSE [sites_db |-> db_delete(sdb, i), ret |-> task_dbs[site_id][1].task]

RECURSIVE get_loop(_, _)
\* the while loop of TaskQueue.get() with the sites cursor at position i of
\* sdb: [sites_db |-> sites.db at commit, ret |-> the task or EmptyQueue]
get_loop(sdb, i) ==
    LET site_priority == sdb[i].key
        site_id == sdb[i].site_id
    IN  IF StrGT(site_priority, _get_key(0))
        THEN [sites_db |-> sdb, ret |-> EmptyQueue]
        ELSE IF site_id \notin sites_info
        THEN \* old site: sites_cursor.delete(); sites_cursor.next()
             LET rest == db_delete(sdb, i)
             IN  IF i > Len(rest)
                 THEN [sites_db |-> rest, ret |-> EmptyQueue]
                 ELSE get_loop(rest, i)
        ELSE IF task_dbs[site_id] = << >>
        THEN IF i + 1 > Len(sdb)
             THEN [sites_db |-> sdb, ret |-> EmptyQueue]
             ELSE get_loop(sdb, i + 1)
        ELSE IF StrGT(task_dbs[site_id][1].key, _get_key(0))
        THEN IF i + 1 > Len(sdb)
             THEN [sites_db |-> sdb, ret |-> EmptyQueue]
             ELSE get_loop(sdb, i + 1)
        ELSE [sites_db |-> db_delete(sdb, i), ret |-> task_dbs[site_id][1].task]

\* TaskQueue.get()
get ==
    IF sites_db = << >>
    THEN [sites_db |-> sites_db, ret |-> EmptyQueue]
    ELSE get_loop(sites_db, 1)

\* the key report_done() and report_error_dir() put the site with
site_key_request(site_id) == _get_key(site_options[site_id].request_wait)

\* the key report_error_site() puts the site with
site_key_error_site(site_id) == _get_key(site_options[site_id].error_site_wait)

\* sites.db after self._sites_db.put(site_key, site_id)
sites_db_put(sdb, site_key, site_id) ==
    db_put(sdb, site_key, [key |-> site_key, site_id |-> site_id])

\* a report call ended by the exception of task_cursor.delete() on an empty
\* database: the transaction is not committed
db_error ==
    [sites_db |-> sites_db, task_dbs |-> task_dbs, raised |-> TRUE]

\* TaskQueue.report_done(task): [sites_db, task_dbs] at commit
report_done(task) ==
    IF task_dbs[task.site_id] = << >>
    THEN db_error
    ELSE [sites_db |-> sites_db_put(sites_db, site_key_request(task.site_id),
                                    task.site_id),
          task_dbs |-> [task_dbs EXCEPT
                           ![task.site_id] = task_db_delete_first(@)],
          raised |-> FALSE]

\* TaskQueue.report_error_site(task)
report_error_site(task) ==
    [sites_db |-> sites_db_put(sites_db, site_key_error_site(task.site_id),
                               task.site_id),
     task_dbs |-> task_dbs,
     raised |-> FALSE]

\* a faulty variant: the task is not put back
report_error_dir_no_put(task) ==
    IF task_dbs[task.site_id] = << >>
    THEN db_error
    ELSE [sites_db |-> sites_db_put(sites_db, site_key_request(task.site_id),
                                    task.site_id),
          task_dbs |-> [task_dbs EXCEPT
                           ![task.site_id] = task_db_delete_first(@)],
          raised |-> FALSE]

\* TaskQueue.report_error_dir(task)
report_error_dir(task) ==
    IF task_dbs[task.site_id] = << >>
    THEN db_error
    ELSE [sites_db |-> sites_db_put(sites_db, site_key_request(task.site_id),
                                    task.site_id),
          task_dbs |-> _put([task_dbs EXCEPT
                                ![task.site_id] = task_db_delete_first(@)],
                            task, site_options[task.site_id].error_dir_wait),
          raised |-> FALSE]

-----------------------------------------------------------------------------
(* TaskQueue.__init__ *)

RECURSIVE init_loop_new_site_waits(_, _, _, _)
\* a faulty variant: a new site is put in the sites queue as a site that was
\* contacted just now
init_loop_new_site_waits(order, old_dbs, sdb, dbs) ==
    IF order = << >>
    THEN [sites_db |-> sdb, task_dbs |-> dbs]
    ELSE LET site_id == Head(order)
         IN  IF site_id \in old_dbs
             THEN init_loop_new_site_waits(Tail(order), old_dbs,
                      IF site_id \notin sites_db_values(sdb)
                      THEN sites_db_put(sdb, _get_key(0), site_id)
                      ELSE sdb,
                      dbs)
             ELSE \* new site added to the configuration file
                  init_loop_new_site_waits(Tail(order), old_dbs,
                      sites_db_put(sdb, site_key_request(site_id), site_id),
                      _put(dbs, CrawlTask(site_id, RootUrl), 0))

RECURSIVE init_loop_no_reput(_, _, _, _)
\* a faulty variant: the id of a site that has a database and is missing
\* from sites.db is not put again
init_loop_no_reput(order, old_dbs, sdb, dbs) ==
    IF order = << >>
    THEN [sites_db |-> sdb, task_dbs |-> dbs]
    ELSE LET site_id == Head(order)
         IN  IF site_id \in old_dbs
             THEN init_loop_no_reput(Tail(order), old_dbs,
                      sdb,
                      dbs)
             ELSE \* new site added to the configuration file
                  init_loop_no_reput(Tail(order), old_dbs,
                      sites_db_put(sdb, _get_key(0), site_id),
                      _put(dbs, CrawlTask(site_id, RootUrl), 0))

RECURSIVE init_loop(_, _, _, _)
\* the loop over sites_info.iteritems(), taken in the order `order`, with
\* old_dbs the databases found in db_home: [sites_db, task_dbs] after it
init_loop(order, old_dbs, sdb, dbs) ==
    IF order = << >>
    THEN [sites_db |-> sdb, task_dbs |-> dbs]
    ELSE LET site_id == Head(order)
         IN  IF site_id \in old_dbs
             THEN init_loop(Tail(order), old_dbs,
                      IF site_id \notin sites_db_values(sdb)
                      THEN sites_db_put(sdb, _get_key(0), site_id)
                      ELSE sdb,
                      dbs)
             ELSE \* new site added to the configuration file
                  init_loop(Tail(order), old_dbs,
                      sites_db_put(sdb, _get_key(0), site_id),
                      _put(dbs, CrawlTask(site_id, RootUrl), 0))

\* the orders a dictionary of the sites in S may be iterated in
Orders(S) ==
    {o \in [1..Cardinality(S) -> S] : \A i, j \in DOMAIN o : i # j => o[i] # o[j]}

\* a faulty variant: the databases of the sites that are not configured stay
TaskQueue_init_keep_old(cfg, order) ==
    LET opened == init_loop(order, db_files, sites_db, task_dbs)
    IN  [sites_db |-> opened.sites_db,
         task_dbs |-> opened.task_dbs,
         db_files |-> db_files \cup cfg]

\* TaskQueue(sites_info, db_home) with the configured sites cfg: the
\* databases of the sites that are not configured are removed
TaskQueue_init(cfg, order) ==
    LET opened == init_loop(order, db_files, sites_db, task_dbs)
    IN  [sites_db |-> opened.sites_db,
         task_dbs |-> [s \in Sites |->
                          IF s \in cfg THEN opened.task_dbs[s] ELSE << >>],
         db_files |-> cfg]

\* len(TaskQueue) of the queue q
q_len(q) == LET RECURSIVE Sum(_)
                Sum(S) == IF S = {} THEN 0
                          ELSE LET s == CHOOSE x \in S : TRUE
                               IN  Len(q.task_dbs[s]) + Sum(S \ {s})
            IN  Sum(Sites)

-----------------------------------------------------------------------------
(* CrawlResult and its pickle *)

\* CrawlResult(task, found): a result without entries
CrawlResult(task, found) ==
    [task |-> task, found |-> found, entries |-> << >>]

\* CrawlResult.append(entry, data): data gets the URL of the entry, and the
\* dictionary of entries holds it under the entry's name
append(result, entry, data) ==
    LET d == [is_dir |-> data.is_dir, url |-> Append(result.task.url, entry)]
    IN  [result EXCEPT !.entries =
            [e \in DOMAIN @ \cup {entry} |-> IF e = entry THEN d ELSE @[e]]]

\* cPickle.dumps(result, 2): the class and what __getstate__ returns, for
\* the result and for the task in it
cPickle_dumps(result) ==
    [class |-> "CrawlResult",
     state |-> [task |-> [class |-> "CrawlTask",
                          state |-> [site_id |-> result.task.site_id,
                                     url |-> result.task.url,
                                     revisit_wait |-> result.task.revisit_wait,
                                     revisit_count |-> result.task.revisit_count,
                                     change_count |-> result.task.change_count]],
                found |-> result.found,
                entries |-> result.entries]]

\* a faulty variant: the entries are not restored
cPickle_loads_no_entries(value) ==
    [task |-> [site_id |-> value.state.task.state.site_id,
               url |-> value.state.task.state.url,
               revisit_wait |-> value.state.task.state.revisit_wait,
               revisit_count |-> value.state.task.state.revisit_count,
               change_count |-> value.state.task.state.change_count],
     found |-> value.state.found,
     entries |-> << >>]

\* cPickle.loads(value): __setstate__ of the task and of the result
cPickle_loads(value) ==
    [task |-> [site_id |-> value.state.task.state.site_id,
               url |-> value.state.task.state.url,
               revisit_wait |-> value.state.task.state.revisit_wait,
               revisit_count |-> value.state.task.state.revisit_count,
               change_count |-> value.state.task.state.change_count],
     found |-> value.state.found,
     entries |-> value.state.entries]

\* the listings the handlers put: of the root directory of a site, with one
\* subdirectory, and of a subdirectory that is not found
ResultsOf(s) ==
    {append(CrawlResult(CrawlTask(s, RootUrl), TRUE), "a", [is_dir |-> TRUE]),
     CrawlResult(CrawlTask(s, <<"a">>), FALSE)}

Results == UNION {ResultsOf(s) : s \in Sites}

NoResult == [raised |-> "NoResult"]

-----------------------------------------------------------------------------
(* ResultQueue: sites.db and the per-site result databases are B-trees with *)
(* DB_DUP whose records all have the key _db_key, so that each holds its    *)
(* records in the order of insertion.                                       *)

\* self._db_key = '0'.zfill(len(str(sys.maxint)))
_db_key == zfill(str(0), KeyLength)

\* ResultQueue.__init__(sites_info, db_home) over the files sdb and dbs: the
\* databases of the sites that are not configured are removed, sites.db is
\* opened as it is
ResultQueue_init(cfg, sdb, dbs) ==
    [sites_info |-> cfg,
     sites_db |-> sdb,
     result_dbs |-> [s \in Sites |-> IF s \in cfg THEN dbs[s] ELSE << >>]]

\* len(ResultQueue)
result_len(info, dbs) ==
    LET RECURSIVE Sum(_)
        Sum(S) == IF S = {} THEN 0
                  ELSE LET s == CHOOSE x \in S : TRUE
                       IN  Len(dbs[s]) + Sum(S \ {s})
    IN  Sum(info)

\* ResultQueue.put(result)
result_put(sdb, dbs, result) ==
    LET site_id == result.task.site_id
    IN  [sites_db |-> db_put(sdb, _db_key,
                             [key |-> _db_key, site_id |-> site_id]),
         result_dbs |-> [dbs EXCEPT ![site_id] =
                            db_put(@, _db_key,
                                   [key |-> _db_key,
                                    value |-> cPickle_dumps(result)])]]

RECURSIVE result_get_loop_destructive(_, _, _)
\* a faulty variant: the id of the site is taken out of sites.db, as
\* TaskQueue.get() does
result_get_loop_destructive(info, sdb, dbs) ==
    LET site_id == sdb[1].site_id
        rest == db_delete(sdb, 1)
    IN  IF site_id \notin info \/ dbs[site_id] = << >>
        THEN IF rest = << >>
             THEN [sites_db |-> rest, ret |-> EmptyQueue]
             ELSE result_get_loop_destructive(info, rest, dbs)
        ELSE [sites_db |-> rest,
              ret |-> cPickle_loads(dbs[site_id][1].value)]

RECURSIVE result_get_loop_stop_at_old(_, _, _)
\* a faulty variant: EmptyQueue is raised at the id of a site that is not
\* configured
result_get_loop_stop_at_old(info, sdb, dbs) ==
    LET site_id == sdb[1].site_id
        rest == db_delete(sdb, 1)
    IN  IF site_id \notin info
        THEN [sites_db |-> rest, ret |-> EmptyQueue]
        ELSE IF dbs[site_id] = << >>
        THEN IF rest = << >>
             THEN [sites_db |-> rest, ret |-> EmptyQueue]
             ELSE result_get_loop_stop_at_old(info, rest, dbs)
        ELSE [sites_db |-> sdb,
              ret |-> cPickle_loads(dbs[site_id][1].value)]

RECURSIVE result_get_loop(_, _, _)
\* the while loop of ResultQueue.get(), the cursor at the first record of
\* sites.db: the ids of sites that are not configured and of sites whose
\* database is empty are deleted, up to the first site with a result
result_get_loop(info, sdb, dbs) ==
    LET site_id == sdb[1].site_id
        rest == db_delete(sdb, 1)
    IN  IF site_id \notin info
        THEN IF rest = << >>
             THEN [sites_db |-> rest, ret |-> EmptyQueue]
             ELSE result_get_loop(info, rest, dbs)
        ELSE IF dbs[site_id] = << >>
        THEN IF rest = << >>
             THEN [sites_db |-> rest, ret |-> EmptyQueue]
             ELSE result_get_loop(info, rest, dbs)
        ELSE [sites_db |-> sdb,
              ret |-> cPickle_loads(dbs[site_id][1].value)]

\* ResultQueue.get(): sites.db after the call and the result returned (or
\* EmptyQueue, raised)
result_get(info, sdb, dbs) ==
    IF sdb = << >>
    THEN [sites_db |-> sdb, ret |-> EmptyQueue]
    ELSE result_get_loop(info, sdb, dbs)

\* an exception leaves the method before txn.commit()
result_error(sdb, dbs) ==
    [sites_db |-> sdb, result_dbs |-> dbs, raised |-> TRUE]

\* a faulty variant: the last record of the site's database is deleted
result_report_done_last(info, sdb, dbs, result) ==
    LET site_id == result.task.site_id
    IN  IF site_id \notin info \/ sdb = << >> \/ dbs[site_id] = << >>
        THEN result_error(sdb, dbs)
        ELSE [sites_db |-> db_delete(sdb, 1),
              result_dbs |-> [dbs EXCEPT ![site_id] = db_delete(@, Len(@))],
              raised |-> FALSE]

\* ResultQueue.report_done(result): the first record of sites.db and the
\* first record of the database of the result's site are deleted
result_report_done(info, sdb, dbs, result) ==
    LET site_id == result.task.site_id
    IN  IF site_id \notin info \/ sdb = << >> \/ dbs[site_id] = << >>
        THEN result_error(sdb, dbs)
        ELSE [sites_db |-> db_delete(sdb, 1),
              result_dbs |-> [dbs EXCEPT ![site_id] = db_delete(@, 1)],
              raised |-> FALSE]

\* ResultQueue.report_error(result): the same two records are deleted, and
\* the site id and the result are put again
result_report_error(info, sdb, dbs, result) ==
    LET site_id == result.task.site_id
    IN  IF site_id \notin info \/ sdb = << >> \/ dbs[site_id] = << >>
        THEN result_error(sdb, dbs)
        ELSE LET q == result_put(db_delete(sdb, 1),
                                 [dbs EXCEPT ![site_id] = db_delete(@, 1)],
                                 result)
             IN  [sites_db |-> q.sites_db, result_dbs |-> q.result_dbs,
                  raised |-> FALSE]

-----------------------------------------------------------------------------
(* URL: the unicode strings of a URL are held as sequences of characters,   *)
(* the URL itself as the sequence of the names below the root directory.    *)

\* the names the entries of the listings have
Names == {"a", "ab"}

\* the characters of a name
unicode(name) ==
    CASE name = "a" -> <<"a">>
      [] name = "ab" -> <<"a", "b">>
      [] name = "/" -> <<"/">>

\* the code point of a character
ord(c) ==
    CASE c = "/" -> 47
      [] c = "a" -> 97
      [] c = "b" -> 98
      [] c = "U+10FFFF" -> 1114111

\* x <= y on unicode strings, as the values of the index are compared
UnicodeLE(x, y) ==
    \/ x = y
    \/ SeqLT([i \in DOMAIN x |-> ord(x[i])], [i \in DOMAIN y |-> ord(y[i])])

RECURSIVE rstrip(_, _)
\* s.rstrip(c)
rstrip(s, c) ==
    IF s # << >> /\ s[Len(s)] = c THEN rstrip(SubSeq(s, 1, Len(s) - 1), c)
    ELSE s

RECURSIVE path(_)
\* url.path: "/" for the root directory, no trailing slash otherwise
path(url) ==
    IF url = << >> THEN <<"/">>
    ELSE IF Len(url) = 1 THEN <<"/">> \o unicode(url[1])
    ELSE path(SubSeq(url, 1, Len(url) - 1)) \o <<"/">>
             \o unicode(url[Len(url)])

\* url.basename: "/" for the root directory
basename(url) == IF url = << >> THEN "/" ELSE url[Len(url)]

\* url.dirname: the path of the parent directory, "/" for the root directory
dirname(url) ==
    IF url = << >> THEN <<"/">> ELSE path(SubSeq(url, 1, Len(url) - 1))

\* url.is_root: the flag the URL of a site is constructed with; a joined URL
\* is not root
is_root(url) == url = RootUrl

-----------------------------------------------------------------------------
(* IndexProcessor: the Xapian database is held as the bag of its documents, *)
(* a document as the values of its slots.                                   *)

\* IndexProcessor._create_document(site_id, data): the values of the slots
_create_document(site_id, data) ==
    [site_id |-> site_id,
     is_dir |-> data.is_dir,
     is_root |-> is_root(data.url),
     basename |-> basename(data.url),
     dirname |-> rstrip(dirname(data.url), "/") \o <<"/">>,
     path |-> path(data.url)]

\* WritableDatabase.add_document(doc)
add_document(ix, doc) == ix (+) SetToBag({doc})

\* WritableDatabase.delete_document for each of the documents in docs
delete_documents(ix, docs) ==
    [d \in DOMAIN ix \ docs |-> ix[d]]

\* Query(OP_FILTER, Query('S' + site_id), Query(OP_VALUE_RANGE, slot, begin,
\* end)): the documents of the site whose value is in the range
value_range(ix, site_id, slot, begin, end) ==
    {d \in DOMAIN ix :
        /\ d.site_id = site_id
        /\ UnicodeLE(begin, d[slot])
        /\ UnicodeLE(d[slot], end)}

\* a faulty variant: the documents of the descendants are left in the index
_rmtree_no_descendants(ix, site_id, dirpath) ==
    delete_documents(ix, value_range(ix, site_id, "path", dirpath, dirpath))

\* IndexProcessor._rmtree(site_id, dirpath): the index after the call
_rmtree(ix, site_id, dirpath) ==
    LET ix1 == delete_documents(ix, value_range(ix, site_id, "path",
                                                dirpath, dirpath))
        dirname_start == rstrip(dirpath, "/") \o <<"/">>
        dirname_end == dirname_start \o <<"U+10FFFF">>
    IN  delete_documents(ix1, value_range(ix1, site_id, "dirname",
                                          dirname_start, dirname_end))

\* a faulty variant: the documents of the sites of the configuration are
\* taken for those of old sites
IndexProcessor_init_keeps_old(cfg, ix) ==
    delete_documents(ix, {d \in DOMAIN ix : d.site_id \in cfg})

\* IndexProcessor.__init__: the documents of the sites that are not
\* configured are removed from the index
IndexProcessor_init(cfg, ix) ==
    LET old_site_ids == {d.site_id : d \in DOMAIN ix} \ cfg
    IN  delete_documents(ix, {d \in DOMAIN ix : d.site_id \in old_site_ids})

\* a call made on the TaskQueue or on the ResultQueue
Call(op, task, flag) == [op |-> op, task |-> task, flag |-> flag]

RECURSIVE indexed_loop_removal_unflagged(_, _, _, _)
\* the loop over the indexed entries, had it not marked the directory as
\* changed when an indexed entry is gone from the listing
indexed_loop_removal_unflagged(st, matches, result, dirname_) ==
    IF matches = {} THEN st
    ELSE LET doc == CHOOSE d \in matches : TRUE
             site_id == result.task.site_id
             next ==
                 IF doc.basename = "/" THEN st
                 ELSE IF doc.basename \notin DOMAIN result.entries
                 THEN [st EXCEPT
                         !.index =
                             IF doc.is_dir
                             THEN _rmtree(@, site_id,
                                          dirname_ \o unicode(doc.basename)
                                              \o <<"/">>)
                             ELSE delete_documents(@, {doc})]
                 ELSE IF doc.is_dir = result.entries[doc.basename].is_dir
                 THEN [st EXCEPT !.indexed_entries = @ \cup {doc.basename}]
                 ELSE [st EXCEPT !.dir_changed = TRUE,
                                 !.index = delete_documents(@, {doc})]
         IN  indexed_loop_removal_unflagged(next, matches \ {doc}, result, dirname_)

RECURSIVE indexed_loop(_, _, _, _)
\* IndexProcessor.process, the loop over the entries of the directory in the
\* index: the index, indexed_entries and dir_changed after it
indexed_loop(st, matches, result, dirname_) ==
    IF matches = {} THEN st
    ELSE LET doc == CHOOSE d \in matches : TRUE
             site_id == result.task.site_id
             next ==
                 IF doc.basename = "/" THEN st
                 ELSE IF doc.basename \notin DOMAIN result.entries
                 THEN [st EXCEPT
                         !.dir_changed = TRUE,
                         !.index =
                             IF doc.is_dir
                             THEN _rmtree(@, site_id,
                                          dirname_ \o unicode(doc.basename)
                                              \o <<"/">>)
                             ELSE delete_documents(@, {doc})]
                 ELSE IF doc.is_dir = result.entries[doc.basename].is_dir
                 THEN [st EXCEPT !.indexed_entries = @ \cup {doc.basename}]
                 ELSE [st EXCEPT !.dir_changed = TRUE,
                                 !.index = delete_documents(@, {doc})]
         IN  indexed_loop(next, matches \ {doc}, result, dirname_)

RECURSIVE result_loop_files_queued(_, _, _)
\* the loop over the entries of the result, had it queued a task for every
\* new entry, the files too
result_loop_files_queued(st, order, result) ==
    IF order = << >> THEN st
    ELSE LET entry == Head(order)
             data == result.entries[entry]
             next ==
                 IF entry \in st.indexed_entries THEN st
                 ELSE LET task == CrawlTask(result.task.site_id, data.url)
                      IN  [st EXCEPT
                              !.dir_changed = TRUE,
                              !.index = add_document(@,
                                  _create_document(result.task.site_id, data)),
                              !.task_dbs =
                                  put_new(@, task),
                              !.calls =
                                  Append(@, Call("put_new", task, FALSE))]
         IN  result_loop_files_queued(next, Tail(order), result)

RECURSIVE result_loop(_, _, _)
\* IndexProcessor.process, the loop over the entries of the result, in the
\* order the dictionary iterates: the index, the task databases, dir_changed
\* and the calls after it
result_loop(st, order, result) ==
    IF order = << >> THEN st
    ELSE LET entry == Head(order)
             data == result.entries[entry]
             next ==
                 IF entry \in st.indexed_entries THEN st
                 ELSE LET task == CrawlTask(result.task.site_id, data.url)
                      IN  [st EXCEPT
                              !.dir_changed = TRUE,
                              !.index = add_document(@,
                                  _create_document(result.task.site_id, data)),
                              !.task_dbs =
                                  IF data.is_dir THEN put_new(@, task) ELSE @,
                              !.calls =
                                  IF data.is_dir
                                  THEN Append(@, Call("put_new", task, FALSE))
                                  ELSE @]
         IN  result_loop(next, Tail(order), result)

\* process, had it indexed the root directory without the query for the
\* document of the root
process_root_unchecked(ix, dbs, result, order) ==
    LET url == result.task.url
        site_id == result.task.site_id
    IN  IF ~result.found
        THEN [index |-> _rmtree(ix, site_id, path(url)),
              task_dbs |-> dbs,
              calls |-> << >>]
        ELSE LET root_docs == {d \in DOMAIN ix :
                                  d.site_id = site_id /\ d.is_root}
                 ix1 == IF is_root(url)
                        THEN add_document(ix, _create_document(site_id,
                                 [url |-> url, is_dir |-> TRUE]))
                        ELSE ix
                 dirname_ == rstrip(path(url), "/") \o <<"/">>
                 st1 == indexed_loop(
                            [index |-> ix1, indexed_entries |-> {},
                             dir_changed |-> FALSE, task_dbs |-> dbs,
                             calls |-> << >>],
                            value_range(ix1, site_id, "dirname", dirname_,
                                        dirname_),
                            result, dirname_)
                 st2 == result_loop(st1, order, result)
             IN  [index |-> st2.index,
                  task_dbs |-> put_visited(st2.task_dbs, result.task,
                                           st2.dir_changed),
                  calls |-> Append(st2.calls,
                                   Call("put_visited", result.task,
                                        st2.dir_changed))]

\* IndexProcessor.process(result) up to the report of the result: the index,
\* the task databases and the calls made, for the order in which the
\* dictionary of the entries iterates
process(ix, dbs, result, order) ==
    LET url == result.task.url
        site_id == result.task.site_id
    IN  IF ~result.found
        THEN [index |-> _rmtree(ix, site_id, path(url)),
              task_dbs |-> dbs,
              calls |-> << >>]
        ELSE LET root_docs == {d \in DOMAIN ix :
                                  d.site_id = site_id /\ d.is_root}
                 ix1 == IF is_root(url) /\ root_docs = {}
                        THEN add_document(ix, _create_document(site_id,
                                 [url |-> url, is_dir |-> TRUE]))
                        ELSE ix
                 dirname_ == rstrip(path(url), "/") \o <<"/">>
                 st1 == indexed_loop(
                            [index |-> ix1, indexed_entries |-> {},
                             dir_changed |-> FALSE, task_dbs |-> dbs,
                             calls |-> << >>],
                            value_range(ix1, site_id, "dirname", dirname_,
                                        dirname_),
                            result, dirname_)
                 st2 == result_loop(st1, order, result)
             IN  [index |-> st2.index,
                  task_dbs |-> put_visited(st2.task_dbs, result.task,
                                           st2.dir_changed),
                  calls |-> Append(st2.calls,
                                   Call("put_visited", result.task,
                                        st2.dir_changed))]

-----------------------------------------------------------------------------
(* Protocol handlers: execute(task) by what the site answers.  The value is *)
(* the calls the method makes on the two queues, in their order, and        *)
(* whether it raises instead of returning.                                  *)

\* the handlers a site may be configured with
Handlers == {"file", "ftp", "apache"}

\* what may happen while the handler lists the directory
Outcomes(handler) ==
    CASE handler = "file" ->
             {"listed", "listed_empty", "not_a_directory", "EACCES",
              "OSError", "IOError"}
      [] handler = "ftp" ->
             {"listed", "listed_empty", "cwd_denied", "timeout",
              "connection_refused", "IOError", "EOFError", "login_denied",
              "list_denied"}
      [] handler = "apache" ->
             {"listed", "listed_empty", "http_404", "http_401", "http_500",
              "connection_refused", "timeout", "read_timeout", "EOFError"}

\* the method returns after the calls
Returns(cs) == [calls |-> cs, raised |-> FALSE]

\* an exception leaves the method after the calls
Raises(cs) == [calls |-> cs, raised |-> TRUE]

\* the else clause of the handlers: the result is put and the task reported
put_and_report_done(task, found) ==
    Returns(<<Call("put", task, found), Call("report_done", task, FALSE)>>)

\* FileHandler.execute(task)
FileHandler_execute(task, outcome) ==
    CASE outcome = "listed" -> Raises(<< >>)
      [] outcome = "listed_empty" -> put_and_report_done(task, TRUE)
      [] outcome = "not_a_directory" -> put_and_report_done(task, FALSE)
      [] outcome = "EACCES" ->
             Returns(<<Call("report_error_dir", task, FALSE)>>)
      [] outcome \in {"OSError", "IOError"} ->
             Returns(<<Call("report_error_site", task, FALSE)>>)

\* FTPHandler.execute(task)
FTPHandler_execute(task, outcome) ==
    CASE outcome = "listed" -> Raises(<< >>)
      [] outcome = "listed_empty" -> put_and_report_done(task, TRUE)
      [] outcome = "cwd_denied" -> put_and_report_done(task, FALSE)
      [] outcome \in {"timeout", "connection_refused", "IOError",
                      "EOFError"} ->
             Returns(<<Call("report_error_site", task, FALSE)>>)
      [] outcome \in {"login_denied", "list_denied"} ->
             Returns(<<Call("report_error_dir", task, FALSE)>>)

\* ApacheHandler.execute(task)
ApacheHandler_execute(task, outcome) ==
    CASE outcome = "listed" -> Raises(<< >>)
      [] outcome = "listed_empty" -> put_and_report_done(task, TRUE)
      [] outcome = "http_404" -> put_and_report_done(task, FALSE)
      [] outcome \in {"http_401", "http_500"} ->
             Returns(<<Call("report_error_dir", task, FALSE)>>)
      [] outcome \in {"connection_refused", "timeout", "EOFError"} ->
             Returns(<<Call("report_error_site", task, FALSE)>>)
      [] outcome = "read_timeout" -> Raises(<< >>)

\* handler.execute(task) of the handler the site is configured with
execute(handler, task, outcome) ==
    CASE handler = "file" -> FileHandler_execute(task, outcome)
      [] handler = "ftp" -> FTPHandler_execute(task, outcome)
      [] handler = "apache" -> ApacheHandler_execute(task, outcome)

-----------------------------------------------------------------------------
(* The threads that use the queue *)

\* no thread of the daemon is started
NoThreads == [t \in Crawlers \cup {"pm"} |-> [pc |-> "new", running |-> FALSE]]

\* ArachneDaemon.run is not entered
NoDaemon == [pc |-> "new", running |-> FALSE, closed |-> {}]

NoReport == [kind |-> "none", time |-> 0, task |-> NoTask]

\* the number of tasks the queue and the processor hold, a task whose
\* listing is put and that is not reported yet counted once
Pending ==
    tq_len + Cardinality(visited) - BagCardinality(reporting)

\* the number of SiteCrawler threads that are not in TaskQueue.get()
Busy ==
    BagCardinality(executing) + BagCardinality(reporting) + ended

\* the clock advances by one second
Tick ==
    /\ now < Epoch + MaxTime
    /\ now' = now + 1
    /\ UNCHANGED <<sites_info, new_sites, db_files, sites_db, task_dbs, executing,
                   reporting, visited, ended, last_report, expected_len>>
    /\ UNCHANGED rq_vars
    /\ UNCHANGED <<ix_vars, th_vars, pq_vars>>

\* SiteCrawler.run: a thread that is executing no task takes a turn of the
\* loop, up to the call of the handler
CrawlerGet ==
    /\ Busy < Cardinality(Crawlers)
    /\ LET r == get
       IN  /\ sites_db' = r.sites_db
           /\ executing' = IF r.ret = EmptyQueue THEN executing
                           ELSE executing (+) SetToBag({r.ret})
           /\ last_report' = IF r.ret = EmptyQueue THEN last_report
                             ELSE [last_report EXCEPT ![r.ret.site_id] = NoReport]
           /\ new_sites' = IF r.ret = EmptyQueue THEN new_sites ELSE {}
    /\ UNCHANGED <<now, sites_info, db_files, task_dbs, reporting, visited,
                   ended, expected_len>>
    /\ UNCHANGED rq_vars
    /\ UNCHANGED <<ix_vars, th_vars, pq_vars>>

\* ProtocolHandler.execute as one step: the handler lists the directory,
\* puts the listing in the result queue and reports the task as done; an
\* exception of the report ends the thread
ExecuteDone(task) ==
    /\ BagIn(task, executing)
    /\ LET r == report_done(task)
       IN  /\ sites_db' = r.sites_db
           /\ task_dbs' = r.task_dbs
           /\ ended' = IF r.raised THEN ended + 1 ELSE ended
           /\ last_report' = IF r.raised THEN last_report
                             ELSE [last_report EXCEPT ![task.site_id] =
                                      [kind |-> "done", time |-> now,
                                       task |-> NoTask]]
           /\ expected_len' = IF r.raised THEN expected_len
                              ELSE expected_len - 1
    /\ visited' = visited \cup {task}
    /\ executing' = executing (-) SetToBag({task})
    /\ UNCHANGED <<now, sites_info, new_sites, db_files, reporting>>
    /\ UNCHANGED rq_vars
    /\ UNCHANGED <<ix_vars, th_vars, pq_vars>>

\* ProtocolHandler.execute in the two calls it makes, first: the handler
\* has listed the directory and puts the listing in the result queue
HandlerPut(task) ==
    /\ BagIn(task, executing)
    /\ Pending <= MaxQueue
    /\ visited' = visited \cup {task}
    /\ executing' = executing (-) SetToBag({task})
    /\ reporting' = reporting (+) SetToBag({task})
    /\ UNCHANGED <<now, sites_info, new_sites, db_files, sites_db, task_dbs, ended,
                   last_report, expected_len>>
    /\ UNCHANGED rq_vars
    /\ UNCHANGED <<ix_vars, th_vars, pq_vars>>

\* ProtocolHandler.execute in the two calls it makes, second: the handler
\* reports the task as done; an exception of the report ends the thread
HandlerReportDone(task) ==
    /\ BagIn(task, reporting)
    /\ LET r == report_done(task)
       IN  /\ sites_db' = r.sites_db
           /\ task_dbs' = r.task_dbs
           /\ ended' = IF r.raised THEN ended + 1 ELSE ended
           /\ last_report' = IF r.raised THEN last_report
                             ELSE [last_report EXCEPT ![task.site_id] =
                                      [kind |-> "done", time |-> now,
                                       task |-> NoTask]]
           /\ expected_len' = IF r.raised THEN expected_len
                              ELSE expected_len - 1
    /\ reporting' = reporting (-) SetToBag({task})
    /\ UNCHANGED <<now, sites_info, new_sites, db_files, executing, visited>>
    /\ UNCHANGED rq_vars
    /\ UNCHANGED <<ix_vars, th_vars, pq_vars>>

\* ProtocolHandler.execute: the listing has entries, and the call of
\* result.add_entry, a method CrawlResult does not have, ends the thread
\* before anything is put or reported
HandlerRaises(task) ==
    /\ BagIn(task, executing)
    /\ executing' = executing (-) SetToBag({task})
    /\ ended' = ended + 1
    /\ UNCHANGED <<now, sites_info, new_sites, db_files, sites_db, task_dbs, reporting,
                   visited, last_report, expected_len>>
    /\ UNCHANGED rq_vars
    /\ UNCHANGED <<ix_vars, th_vars, pq_vars>>

\* the handler fails to contact the site
ExecuteErrorSite(task) ==
    /\ BagIn(task, executing)
    /\ LET r == report_error_site(task)
       IN  /\ sites_db' = r.sites_db
           /\ task_dbs' = r.task_dbs
    /\ last_report' = [last_report EXCEPT ![task.site_id] =
           [kind |-> "error_site", time |-> now, task |-> task]]
    /\ executing' = executing (-) SetToBag({task})
    /\ UNCHANGED <<now, sites_info, new_sites, db_files, reporting, visited, ended,
                   expected_len>>
    /\ UNCHANGED rq_vars
    /\ UNCHANGED <<ix_vars, th_vars, pq_vars>>

\* the handler contacts the site and fails to list the directory; an
\* exception of the report ends the thread
ExecuteErrorDir(task) ==
    /\ BagIn(task, executing)
    /\ LET r == report_error_dir(task)
       IN  /\ sites_db' = r.sites_db
           /\ task_dbs' = r.task_dbs
           /\ ended' = IF r.raised THEN ended + 1 ELSE ended
           /\ last_report' = IF r.raised THEN last_report
                             ELSE [last_report EXCEPT ![task.site_id] =
                                      [kind |-> "error_dir", time |-> now,
                                       task |-> task]]
    /\ executing' = executing (-) SetToBag({task})
    /\ UNCHANGED <<now, sites_info, new_sites, db_files, reporting, visited,
                   expected_len>>
    /\ UNCHANGED rq_vars
    /\ UNCHANGED <<ix_vars, th_vars, pq_vars>>

\* the processor finds a new directory
PutNew(s, u) ==
    /\ s \in sites_info
    /\ Pending < MaxQueue
    /\ task_dbs' = put_new(task_dbs, CrawlTask(s, u))
    /\ expected_len' = expected_len + 1
    /\ UNCHANGED <<now, sites_info, new_sites, db_files, sites_db, executing, reporting,
                   visited, ended, last_report>>
    /\ UNCHANGED rq_vars
    /\ UNCHANGED <<ix_vars, th_vars, pq_vars>>

\* the processor has processed the listing of a directory
PutVisited(t, changed) ==
    /\ t \in visited
    /\ t.site_id \in sites_info
    /\ task_dbs' = put_visited(task_dbs, t, changed)
    /\ visited' = visited \ {t}
    /\ expected_len' = expected_len + 1
    /\ UNCHANGED <<now, sites_info, new_sites, db_files, sites_db, executing, reporting,
                   ended, last_report>>
    /\ UNCHANGED rq_vars
    /\ UNCHANGED <<ix_vars, th_vars, pq_vars>>

\* the processor has processed a listing that says the directory is gone
NotFound(t) ==
    /\ t \in visited
    /\ visited' = visited \ {t}
    /\ UNCHANGED <<now, sites_info, new_sites, db_files, sites_db, task_dbs, executing,
                   reporting, ended, last_report, expected_len>>
    /\ UNCHANGED rq_vars
    /\ UNCHANGED <<ix_vars, th_vars, pq_vars>>

\* the sequence without the first of its elements equal to x
RemoveFirst(seq, x) ==
    IF \E i \in 1..Len(seq) : seq[i] = x
    THEN db_delete(seq, CHOOSE i \in 1..Len(seq) :
                           seq[i] = x /\ \A j \in 1..(i - 1) : seq[j] # x)
    ELSE seq

\* the state of the task queue and of its users
tq_vars == <<now, sites_info, new_sites, db_files, sites_db, task_dbs, executing,
             reporting, visited, ended, last_report, expected_len>>

\* a handler puts the listing of a directory in the result queue
ResultPut(result) ==
    /\ result.task.site_id \in rq_sites_info
    /\ Len(rq_sites_db) < MaxResults
    /\ LET q == result_put(rq_sites_db, rq_result_dbs, result)
       IN  /\ rq_sites_db' = q.sites_db
           /\ rq_result_dbs' = q.result_dbs
    /\ rq_put_order' = Append(rq_put_order, result)
    /\ UNCHANGED <<rq_sites_info, rq_got>>
    /\ UNCHANGED tq_vars
    /\ UNCHANGED <<ix_vars, th_vars, pq_vars>>

\* ProcessorManager.run: the processor, which holds no result, asks for one
ResultGet ==
    /\ rq_got = NoResult
    /\ LET r == result_get(rq_sites_info, rq_sites_db, rq_result_dbs)
       IN  /\ rq_sites_db' = r.sites_db
           /\ rq_got' = IF r.ret = EmptyQueue THEN NoResult ELSE r.ret
    /\ UNCHANGED <<rq_sites_info, rq_result_dbs, rq_put_order>>
    /\ UNCHANGED tq_vars
    /\ UNCHANGED <<ix_vars, th_vars, pq_vars>>

\* IndexProcessor.process: the result is processed and reported as done
ResultReportDone ==
    /\ rq_got # NoResult
    /\ LET r == result_report_done(rq_sites_info, rq_sites_db, rq_result_dbs,
                                   rq_got)
       IN  /\ rq_sites_db' = r.sites_db
           /\ rq_result_dbs' = r.result_dbs
           /\ rq_put_order' = IF r.raised THEN rq_put_order
                              ELSE RemoveFirst(rq_put_order, rq_got)
    /\ rq_got' = NoResult
    /\ UNCHANGED rq_sites_info
    /\ UNCHANGED tq_vars
    /\ UNCHANGED <<ix_vars, th_vars, pq_vars>>

\* the user of the queue fails to process the result and reports the error
ResultReportError ==
    /\ rq_got # NoResult
    /\ LET r == result_report_error(rq_sites_info, rq_sites_db,
                                    rq_result_dbs, rq_got)
       IN  /\ rq_sites_db' = r.sites_db
           /\ rq_result_dbs' = r.result_dbs
           /\ rq_put_order' = IF r.raised THEN rq_put_order
                              ELSE Append(RemoveFirst(rq_put_order, rq_got),
                                          rq_got)
    /\ rq_got' = NoResult
    /\ UNCHANGED rq_sites_info
    /\ UNCHANGED tq_vars
    /\ UNCHANGED <<ix_vars, th_vars, pq_vars>>

\* the result queue is closed and constructed again with the sites cfg, by
\* a user that holds no result of it
ResultQueueOpen(cfg) ==
    /\ LET q == ResultQueue_init(cfg, rq_sites_db, rq_result_dbs)
       IN  /\ rq_sites_info' = q.sites_info
           /\ rq_sites_db' = q.sites_db
           /\ rq_result_dbs' = q.result_dbs
    /\ rq_got' = NoResult
    /\ rq_put_order' =
          SelectSeq(rq_put_order, LAMBDA r : r.task.site_id \in cfg)

\* the queue is closed and opened with the configuration as it is
ResultRestart ==
    /\ ResultQueueOpen(rq_sites_info)
    /\ UNCHANGED tq_vars
    /\ UNCHANGED <<ix_vars, th_vars, pq_vars>>

\* the queue is closed and opened after a site was removed from or added to
\* the configuration
ResultReconfigure ==
    /\ \E cfg \in Configurations \ {rq_sites_info} : ResultQueueOpen(cfg)
    /\ UNCHANGED tq_vars
    /\ UNCHANGED <<ix_vars, th_vars, pq_vars>>

\* no call is recorded
NoCalls ==
    [by |-> "none", handler |-> "none", outcome |-> "none", arg |-> NoTask,
     returned |-> TRUE, seq |-> << >>]

\* the calls on the TaskQueue among the calls cs
task_reports(cs) == SelectSeq(cs, LAMBDA c : c.op # "put")

\* the calls of ResultQueue.put among the calls cs
result_puts(cs) == SelectSeq(cs, LAMBDA c : c.op = "put")

\* SiteCrawler._execute: handler.execute(task) as one step, for the handler
\* of the site and what happens while it lists the directory; an exception
\* that leaves execute ends the thread
HandlerExecute(task, handler, outcome) ==
    /\ BagIn(task, executing)
    /\ outcome \in Outcomes(handler)
    /\ LET e == execute(handler, task, outcome)
           puts == result_puts(e.calls)
           reports == task_reports(e.calls)
           op == IF reports = << >> THEN "none" ELSE reports[1].op
           q == IF puts = << >>
                THEN [sites_db |-> rq_sites_db, result_dbs |-> rq_result_dbs]
                ELSE result_put(rq_sites_db, rq_result_dbs,
                                CrawlResult(task, puts[1].flag))
           r == CASE op = "report_done" -> report_done(task)
                  [] op = "report_error_dir" -> report_error_dir(task)
                  [] op = "report_error_site" ->
                         [raised |-> FALSE] @@ report_error_site(task)
                  [] op = "none" ->
                         [sites_db |-> sites_db, task_dbs |-> task_dbs,
                          raised |-> FALSE]
       IN  /\ rq_sites_db' = q.sites_db
           /\ rq_result_dbs' = q.result_dbs
           /\ rq_put_order' =
                 IF puts = << >> THEN rq_put_order
                 ELSE Append(rq_put_order, CrawlResult(task, puts[1].flag))
           /\ sites_db' = r.sites_db
           /\ task_dbs' = r.task_dbs
           /\ ended' = IF e.raised \/ r.raised THEN ended + 1 ELSE ended
           /\ last_report' =
                 IF r.raised \/ op = "none" THEN last_report
                 ELSE [last_report EXCEPT ![task.site_id] =
                          CASE op = "report_done" ->
                                   [kind |-> "done", time |-> now,
                                    task |-> NoTask]
                            [] op = "report_error_dir" ->
                                   [kind |-> "error_dir", time |-> now,
                                    task |-> task]
                            [] op = "report_error_site" ->
                                   [kind |-> "error_site", time |-> now,
                                    task |-> task]]
           /\ expected_len' = IF op = "report_done" /\ ~r.raised
                              THEN expected_len - 1 ELSE expected_len
           /\ calls' = [by |-> "execute", handler |-> handler,
                        outcome |-> outcome, arg |-> task,
                        returned |-> ~e.raised /\ ~r.raised,
                        seq |-> e.calls]
    /\ executing' = executing (-) SetToBag({task})
    /\ UNCHANGED <<now, sites_info, new_sites, db_files, reporting, visited,
                   rq_sites_info, rq_got, index>>
    /\ UNCHANGED <<th_vars, pq_vars>>

\* the listings the directory of a task may have, the entries by name: the
\* root directory of s1 has "a", a file or a directory, and the file "ab", or
\* one of them, or neither; the directory "a" has the file "a" or is empty;
\* the root directory of the other sites has the file "a"
ListingsOf(task) ==
    LET entries(names) ==
            UNION {[S -> [is_dir : BOOLEAN]] : S \in SUBSET names}
    IN  IF task.site_id # "s1"
        THEN IF Len(task.url) = 0 THEN {[e \in {"a"} |-> [is_dir |-> FALSE]]}
             ELSE {}
        ELSE IF Len(task.url) = 0
        THEN {l \in entries(Names) : "ab" \in DOMAIN l => ~l["ab"].is_dir}
        ELSE {l \in entries({"a"}) : "a" \in DOMAIN l => ~l["a"].is_dir}

RECURSIVE listing_result(_, _, _)
\* the result of a task with the entries of the listing appended
listing_result(result, listing, names) ==
    IF names = {} THEN result
    ELSE LET entry == CHOOSE e \in names : TRUE
         IN  listing_result(append(result, entry, listing[entry]), listing,
                            names \ {entry})

\* a listing with entries reaches the result queue: the result is built with
\* CrawlResult.append, as the tests of CrawlResult build it, it is put, and
\* the task is reported done; an exception of the report ends the thread
Listed(task, listing) ==
    /\ BagIn(task, executing)
    /\ listing \in ListingsOf(task)
    /\ LET result == listing_result(CrawlResult(task, TRUE), listing,
                                    DOMAIN listing)
           q == result_put(rq_sites_db, rq_result_dbs, result)
           r == report_done(task)
       IN  /\ rq_sites_db' = q.sites_db
           /\ rq_result_dbs' = q.result_dbs
           /\ rq_put_order' = Append(rq_put_order, result)
           /\ sites_db' = r.sites_db
           /\ task_dbs' = r.task_dbs
           /\ ended' = IF r.raised THEN ended + 1 ELSE ended
           /\ last_report' =
                 IF r.raised THEN last_report
                 ELSE [last_report EXCEPT ![task.site_id] =
                          [kind |-> "done", time |-> now, task |-> NoTask]]
           /\ expected_len' = IF r.raised THEN expected_len
                              ELSE expected_len - 1
           /\ calls' = [by |-> "execute", handler |-> "none",
                        outcome |-> "listed", arg |-> task,
                        returned |-> ~r.raised,
                        seq |-> <<Call("put", task, TRUE),
                                  Call("report_done", task, FALSE)>>]
    /\ executing' = executing (-) SetToBag({task})
    /\ UNCHANGED <<now, sites_info, new_sites, db_files, reporting, visited,
                   rq_sites_info, rq_got, index>>
    /\ UNCHANGED <<th_vars, pq_vars>>

\* the thread of the ProcessorManager has not left run()
ProcessorRuns == threads["pm"].pc # "exited"

\* ProcessorManager.run: a turn of the loop up to the call of process
ProcessorGet ==
    /\ ProcessorRuns
    /\ rq_got = NoResult
    /\ LET r == result_get(rq_sites_info, rq_sites_db, rq_result_dbs)
       IN  /\ rq_sites_db' = r.sites_db
           /\ rq_got' = IF r.ret = EmptyQueue THEN NoResult ELSE r.ret
    /\ UNCHANGED <<rq_sites_info, rq_result_dbs, rq_put_order>>
    /\ UNCHANGED tq_vars
    /\ UNCHANGED <<ix_vars, th_vars, pq_vars>>

\* ProcessorManager.run: self._processor.process(result), for the order in
\* which the entries of the result iterate; an exception of report_done
\* ends the thread
Process(order) ==
    /\ ProcessorRuns
    /\ rq_got # NoResult
    /\ rq_got.task.site_id \in sites_info
    /\ order \in Orders(DOMAIN rq_got.entries)
    /\ LET p == process(index, task_dbs, rq_got, order)
           r == result_report_done(rq_sites_info, rq_sites_db, rq_result_dbs,
                                   rq_got)
       IN  /\ index' = p.index
           /\ task_dbs' = p.task_dbs
           /\ expected_len' = expected_len + Len(p.calls)
           /\ rq_sites_db' = r.sites_db
           /\ rq_result_dbs' = r.result_dbs
           /\ rq_put_order' = IF r.raised THEN rq_put_order
                              ELSE RemoveFirst(rq_put_order, rq_got)
           /\ threads' = IF r.raised
                         THEN [threads EXCEPT !["pm"].pc = "exited"]
                         ELSE threads
           /\ calls' = [by |-> "process", handler |-> "none",
                        outcome |-> "none", arg |-> rq_got,
                        returned |-> ~r.raised,
                        seq |-> Append(p.calls,
                                       Call("report_done", rq_got.task,
                                            FALSE))]
    /\ rq_got' = NoResult
    /\ UNCHANGED <<now, sites_info, new_sites, db_files, sites_db, executing, reporting,
                   visited, ended, last_report, rq_sites_info, daemon>>
    /\ UNCHANGED pq_vars

\* ProcessorManager.run: the index fails in the first call that process
\* makes on it; the exception leaves process and the loop, and the thread
\* ends
ProcessRaises ==
    /\ ProcessorRuns
    /\ rq_got # NoResult
    /\ threads' = [threads EXCEPT !["pm"].pc = "exited"]
    /\ calls' = [by |-> "process", handler |-> "none", outcome |-> "none",
                 arg |-> rq_got, returned |-> FALSE, seq |-> << >>]
    /\ rq_got' = NoResult
    /\ UNCHANGED <<rq_sites_info, rq_sites_db, rq_result_dbs, rq_put_order,
                   index, daemon>>
    /\ UNCHANGED tq_vars
    /\ UNCHANGED pq_vars

\* the daemon stops (or is killed) and starts with the sites cfg in its
\* configuration file: the queues are opened again, the threads start anew,
\* and the listings of the sites that are not configured are purged
Open(cfg) ==
    /\ \E order \in Orders(cfg) :
          LET q == TaskQueue_init(cfg, order)
          IN  /\ sites_db' = q.sites_db
              /\ task_dbs' = q.task_dbs
              /\ db_files' = q.db_files
              /\ expected_len' = q_len(q)
    /\ sites_info' = cfg
    /\ new_sites' = cfg \ db_files
    /\ executing' = EmptyBag
    /\ reporting' = EmptyBag
    /\ ended' = 0
    /\ visited' = {t \in visited : t.site_id \in cfg}
    /\ last_report' = [s \in Sites |->
                          IF s \in cfg THEN last_report[s] ELSE NoReport]
    /\ UNCHANGED now
    /\ ResultQueueOpen(cfg)
    /\ index' = IndexProcessor_init(cfg, index)
    /\ calls' = LET old_site_ids == {d.site_id : d \in DOMAIN index} \ cfg
                IN  IF old_site_ids = {} THEN NoCalls
                    ELSE [NoCalls EXCEPT
                             !.by = "IndexProcessor",
                             !.arg = [old_site_ids |-> old_site_ids]]
    /\ threads' = NoThreads
    /\ UNCHANGED <<daemon, pq_vars>>

\* a restart with the configuration as it is
Restart == Open(sites_info)

\* a restart after sites were removed from or added to the configuration
Reconfigure ==
    /\ Len(sites_db) < MaxSitesLen
    /\ \E cfg \in Configurations \ {sites_info} : Open(cfg)

Init ==
    /\ now = Epoch
    /\ sites_info = Sites
    /\ new_sites = Sites
    /\ \E order \in Orders(Sites) :
          LET q == init_loop(order, {}, << >>, [s \in Sites |-> << >>])
          IN  /\ sites_db = q.sites_db
              /\ task_dbs = q.task_dbs
    /\ db_files = Sites
    /\ executing = EmptyBag
    /\ reporting = EmptyBag
    /\ visited = {}
    /\ ended = 0
    /\ last_report = [s \in Sites |-> NoReport]
    /\ expected_len = Cardinality(Sites)
    /\ rq_sites_info = Sites
    /\ rq_sites_db = << >>
    /\ rq_result_dbs = [s \in Sites |-> << >>]
    /\ rq_got = NoResult
    /\ rq_put_order = << >>
    /\ index = EmptyBag
    /\ calls = NoCalls
    /\ threads = NoThreads
    /\ daemon = NoDaemon
    /\ pqueue = NewPriorityQueue
    /\ fqueue = NewQueue

Next ==
    \/ Tick
    \/ CrawlerGet
    \/ \E task \in BagToSet(executing) : ExecuteDone(task)
    \/ \E task \in BagToSet(executing) : ExecuteErrorSite(task)
    \/ \E task \in BagToSet(executing) : ExecuteErrorDir(task)
    \/ \E s \in Sites, u \in NewUrls : PutNew(s, u)
    \/ \E t \in visited, changed \in BOOLEAN : PutVisited(t, changed)
    \/ \E t \in visited : NotFound(t)
    \/ Restart

\* the daemon run and restarted with one configuration
Spec == Init /\ [][Next]_vars

\* The visits of the directories with the daemon stopped and started at any
\* moment: tasks are got, reported done or failed on their directory, and
\* scheduled again by the processor.
NextRun ==
    \/ Tick
    \/ CrawlerGet
    \/ \E task \in BagToSet(executing) : ExecuteDone(task)
    \/ \E task \in BagToSet(executing) : ExecuteErrorDir(task)
    \/ \E t \in visited, changed \in BOOLEAN : PutVisited(t, changed)
    \/ Restart

\* The SiteCrawler threads run: a thread that is not executing a task calls
\* get() again and again (crawler.py 55-66), so a get() that would return a
\* task is not put off for ever.
SpecFair == Init /\ [][NextRun]_vars /\ WF_vars(CrawlerGet)

NextReconf ==
    \/ Next
    \/ Reconfigure

\* the daemon run and restarted with the configuration changed between runs
SpecReconf == Init /\ [][NextReconf]_vars

\* The daemon opened again and again, with the same configuration or with a
\* changed one, over the queue files that the crawl of the runs before has
\* left: tasks are requested and reported done and new tasks are put, and no
\* task fails.
NextOpen ==
    \/ Tick
    \/ CrawlerGet
    \/ \E task \in BagToSet(executing) : ExecuteDone(task)
    \/ \E s \in Sites, u \in NewUrls : PutNew(s, u)
    \/ Restart
    \/ Reconfigure

SpecOpen == Init /\ [][NextOpen]_vars

\* The revisits of one directory: the daemon is run with site s1 alone, whose
\* root directory is listed, processed and scheduled again and again, for as
\* long as it takes the estimator to fire on the waits it has set itself.
InitVisits ==
    /\ now = Epoch
    /\ sites_info = {"s1"}
    /\ new_sites = {"s1"}
    /\ LET q == init_loop(<<"s1">>, {}, << >>, [s \in Sites |-> << >>])
       IN  /\ sites_db = q.sites_db
           /\ task_dbs = q.task_dbs
    /\ db_files = {"s1"}
    /\ executing = EmptyBag
    /\ reporting = EmptyBag
    /\ visited = {}
    /\ ended = 0
    /\ last_report = [s \in Sites |-> NoReport]
    /\ expected_len = 1
    /\ rq_sites_info = {"s1"}
    /\ rq_sites_db = << >>
    /\ rq_result_dbs = [s \in Sites |-> << >>]
    /\ rq_got = NoResult
    /\ rq_put_order = << >>
    /\ index = EmptyBag
    /\ calls = NoCalls
    /\ threads = NoThreads
    /\ daemon = NoDaemon
    /\ pqueue = NewPriorityQueue
    /\ fqueue = NewQueue

\* the clock advances by one second
TickVisits ==
    /\ now < Epoch + MaxVisitTime
    /\ now' = now + 1
    /\ UNCHANGED <<sites_info, new_sites, db_files, sites_db, task_dbs, executing,
                   reporting, visited, ended, last_report, expected_len>>
    /\ UNCHANGED rq_vars
    /\ UNCHANGED <<ix_vars, th_vars, pq_vars>>

NextVisits ==
    \/ TickVisits
    \/ CrawlerGet
    \/ \E task \in BagToSet(executing) : ExecuteDone(task)
    \/ \E t \in visited, changed \in BOOLEAN : PutVisited(t, changed)

SpecVisits == InitVisits /\ [][NextVisits]_vars

\* The result queue between the handlers, which put listings, and its one
\* reader, which gets a result and reports it before it gets the next.
NextResults ==
    \/ \E result \in Results : ResultPut(result)
    \/ ResultGet
    \/ ResultReportDone
    \/ ResultReportError
    \/ ResultRestart

\* the result queue used and opened again with one configuration
SpecResults == Init /\ [][NextResults]_vars

NextResultsReconf ==
    \/ NextResults
    \/ ResultReconfigure

\* the result queue used and opened again with the configuration changed
SpecResultsReconf == Init /\ [][NextResultsReconf]_vars

\* the orders in which the entries of the result the processor holds iterate
EntryOrders ==
    IF rq_got = NoResult THEN {} ELSE Orders(DOMAIN rq_got.entries)

\* The daemon with its handlers and its processor: the crawlers execute the
\* tasks with the handlers the sites may be configured with, whatever the
\* sites answer, and the processor processes the results they put.
NextDaemon ==
    \/ Tick
    \/ CrawlerGet
    \/ \E task \in BagToSet(executing), handler \in Handlers :
          \E outcome \in Outcomes(handler) :
              HandlerExecute(task, handler, outcome)
    \/ ProcessorGet
    \/ \E order \in EntryOrders : Process(order)
    \/ ProcessRaises
    \/ Restart

SpecDaemon == Init /\ [][NextDaemon]_vars

\* The index kept up to date: the crawlers execute the tasks, listings with
\* entries and answers that the directory does not exist are put as results,
\* and the processor processes them, which puts the tasks of the new
\* directories and of the next visits.
NextIndex ==
    \/ Tick
    \/ CrawlerGet
    \/ \E task \in BagToSet(executing) :
          \E listing \in ListingsOf(task) : Listed(task, listing)
    \/ \E task \in BagToSet(executing) :
          task.site_id = "s1" /\ HandlerExecute(task, "ftp", "cwd_denied")
    \/ ProcessorGet
    \/ \E order \in EntryOrders : Process(order)

SpecIndex == Init /\ [][NextIndex]_vars

\* the first visits of the directories, without the passing of time
NextIndexReconf ==
    \/ CrawlerGet
    \/ \E task \in BagToSet(executing) :
          \E listing \in ListingsOf(task) : Listed(task, listing)
    \/ ProcessorGet
    \/ \E order \in EntryOrders : Process(order)
    \/ Reconfigure

\* the index filled and the daemon started again with the configuration
\* changed between the runs
SpecIndexReconf == Init /\ [][NextIndexReconf]_vars

-----------------------------------------------------------------------------
(* The threads of the daemon: ArachneDaemon.run starts the site crawlers    *)
(* and the processor manager, waits for the signal, orders the threads to   *)
(* stop, joins them and closes the queues.  What the body of a loop does to *)
(* the queues is in CrawlerGet, HandlerExecute, ProcessorGet and Process;   *)
(* here a body is a step that ends, as get() never blocks and execute() and *)
(* process() return or raise.                                               *)

Threads == Crawlers \cup {"pm"}

\* ArachneDaemon.run up to the main loop: the queues and the managers are
\* made, CrawlerManager.start and ProcessorManager.start start the threads;
\* Thread.start returns when the thread is started, before its run()
DaemonStart ==
    /\ daemon.pc = "new"
    /\ daemon' = [daemon EXCEPT !.pc = "paused", !.running = TRUE]
    /\ threads' = [t \in Threads |-> [threads[t] EXCEPT !.pc = "started"]]
    /\ UNCHANGED <<tq_vars, rq_vars, ix_vars, pq_vars>>

\* ArachneDaemon.terminate, called for the signal: signal.pause() returns
\* and the main loop ends
Terminate ==
    /\ daemon.pc = "paused"
    /\ daemon' = [daemon EXCEPT !.pc = "stop_crawlers", !.running = FALSE]
    /\ UNCHANGED <<tq_vars, rq_vars, ix_vars, pq_vars, threads>>

\* CrawlerManager.stop: SiteCrawler.stop of every crawler
CrawlerManager_stop ==
    /\ daemon.pc = "stop_crawlers"
    /\ threads' = [t \in Threads |->
                      IF t \in Crawlers
                      THEN [threads[t] EXCEPT !.running = FALSE]
                      ELSE threads[t]]
    /\ daemon' = [daemon EXCEPT !.pc = "stop_processor"]
    /\ UNCHANGED <<tq_vars, rq_vars, ix_vars, pq_vars>>

\* ProcessorManager.stop
ProcessorManager_stop ==
    /\ daemon.pc = "stop_processor"
    /\ threads' = [threads EXCEPT !["pm"].running = FALSE]
    /\ daemon' = [daemon EXCEPT !.pc = "join"]
    /\ UNCHANGED <<tq_vars, rq_vars, ix_vars, pq_vars>>

\* CrawlerManager.join and ProcessorManager.join return when the threads
\* have ended
Join ==
    /\ daemon.pc = "join"
    /\ \A t \in Threads : threads[t].pc = "exited"
    /\ daemon' = [daemon EXCEPT !.pc = "close_results"]
    /\ UNCHANGED <<tq_vars, rq_vars, ix_vars, pq_vars, threads>>

\* self._results.close()
ResultQueue_close ==
    /\ daemon.pc = "close_results"
    /\ daemon' = [daemon EXCEPT !.pc = "close_tasks",
                                !.closed = @ \cup {"results"}]
    /\ UNCHANGED <<tq_vars, rq_vars, ix_vars, pq_vars, threads>>

\* self._tasks.close()
TaskQueue_close ==
    /\ daemon.pc = "close_tasks"
    /\ daemon' = [daemon EXCEPT !.pc = "done",
                                !.closed = @ \cup {"tasks"}]
    /\ UNCHANGED <<tq_vars, rq_vars, ix_vars, pq_vars, threads>>

\* SiteCrawler.run and ProcessorManager.run, the first statement:
\* self._running = True
run_enter(thread) == [thread EXCEPT !.pc = "loop", !.running = TRUE]

\* the thread enters run()
ThreadRun(t) ==
    /\ threads[t].pc = "started"
    /\ threads' = [threads EXCEPT ![t] = run_enter(@)]
    /\ UNCHANGED <<tq_vars, rq_vars, ix_vars, pq_vars, daemon>>

\* while self._running: the body is entered, or the loop and the thread end
ThreadLoop(t) ==
    /\ threads[t].pc = "loop"
    /\ threads' = [threads EXCEPT
                      ![t].pc = IF threads[t].running THEN "body"
                                ELSE "exited"]
    /\ UNCHANGED <<tq_vars, rq_vars, ix_vars, pq_vars, daemon>>

\* the body of the loop ends: get() raised EmptyQueue and the thread slept,
\* or the task was executed (the result processed)
ThreadBody(t) ==
    /\ threads[t].pc = "body"
    /\ threads' = [threads EXCEPT ![t].pc = "loop"]
    /\ UNCHANGED <<tq_vars, rq_vars, ix_vars, pq_vars, daemon>>

\* an exception leaves the body: run() logs it and the thread ends
ThreadRaises(t) ==
    /\ threads[t].pc = "body"
    /\ threads' = [threads EXCEPT ![t].pc = "exited"]
    /\ UNCHANGED <<tq_vars, rq_vars, ix_vars, pq_vars, daemon>>

NextShutdown ==
    \/ DaemonStart
    \/ Terminate
    \/ CrawlerManager_stop
    \/ ProcessorManager_stop
    \/ Join
    \/ ResultQueue_close
    \/ TaskQueue_close
    \/ \E t \in Threads : ThreadRun(t)
    \/ \E t \in Threads : ThreadLoop(t)
    \/ \E t \in Threads : ThreadBody(t)
    \/ \E t \in Threads : ThreadRaises(t)

\* the scheduler runs every thread that can take a step, and the main thread
\* goes on once the signal has come; the signal itself and the exceptions
\* need not happen
ShutdownFairness ==
    /\ \A t \in Threads :
          WF_vars(ThreadRun(t) \/ ThreadLoop(t) \/ ThreadBody(t))
    /\ WF_vars(DaemonStart \/ CrawlerManager_stop \/ ProcessorManager_stop
                  \/ Join \/ ResultQueue_close \/ TaskQueue_close)

\* the daemon started and stopped by a signal, with fair scheduling
SpecShutdown == Init /\ [][NextShutdown]_vars /\ ShutdownFairness

-----------------------------------------------------------------------------
(* The users of the persistent queues: an item is its rank among the puts. *)

\* PriorityQueue.put(item, priority)
PriorityQueuePut(priority) ==
    /\ pqueue.puts < MaxPuts
    /\ LET item == pqueue.puts + 1
           db == PriorityQueue_put(pqueue.db, item, priority)
       IN  pqueue' = [db |-> db,
                      expected |-> expected_put(pqueue.expected, item,
                                                priority),
                      puts |-> item,
                      last |-> [op |-> "put", result |-> [item |-> item],
                                len |-> Len(db),
                                before |-> pqueue.expected]]
    /\ UNCHANGED <<tq_vars, rq_vars, ix_vars, th_vars, fqueue>>

\* PriorityQueue.head()
PriorityQueueHead ==
    /\ pqueue' = [pqueue EXCEPT
                     !.last = [op |-> "head",
                               result |-> PriorityQueue_head(pqueue.db),
                               len |-> Len(pqueue.db),
                               before |-> pqueue.expected]]
    /\ UNCHANGED <<tq_vars, rq_vars, ix_vars, th_vars, fqueue>>

\* PriorityQueue.get()
PriorityQueueGet ==
    /\ LET g == PriorityQueue_get(pqueue.db)
       IN  pqueue' = [pqueue EXCEPT
                         !.db = g.db,
                         !.expected = IF g.result = QueueError THEN @
                                      ELSE Tail(@),
                         !.last = [op |-> "get", result |-> g.result,
                                   len |-> Len(g.db),
                                   before |-> pqueue.expected]]
    /\ UNCHANGED <<tq_vars, rq_vars, ix_vars, th_vars, fqueue>>

NextPriorityQueue ==
    \/ \E priority \in Priorities : PriorityQueuePut(priority)
    \/ PriorityQueueHead
    \/ PriorityQueueGet

\* a PriorityQueue of aracne/utils/persist.py put to and got from
SpecPriorityQueue == Init /\ [][NextPriorityQueue]_vars

\* Queue.put(item)
QueuePut ==
    /\ fqueue.puts < MaxPuts
    /\ LET item == fqueue.puts + 1
           q == Queue_put(fqueue, item)
       IN  fqueue' = [db |-> q.db, counter |-> q.counter,
                      expected |-> Append(fqueue.expected, item),
                      puts |-> item,
                      last |-> [op |-> "put", result |-> [item |-> item],
                                len |-> q.counter,
                                before |-> fqueue.expected]]
    /\ UNCHANGED <<tq_vars, rq_vars, ix_vars, th_vars, pqueue>>

\* Queue.get(); expected loses its head when an item is returned
QueueGet ==
    /\ LET g == Queue_get(fqueue)
       IN  fqueue' = [fqueue EXCEPT
                         !.db = g.db,
                         !.counter = g.counter,
                         !.expected = IF g.result \in {QueueError, ValueError}
                                          \/ @ = << >>
                                      THEN @ ELSE Tail(@),
                         !.last = [op |-> "get", result |-> g.result,
                                   len |-> g.counter,
                                   before |-> fqueue.expected]]
    /\ UNCHANGED <<tq_vars, rq_vars, ix_vars, th_vars, pqueue>>

NextQueue ==
    \/ QueuePut
    \/ QueueGet

\* a Queue of aracne/utils/persistent.py put to and got from, in any order
SpecQueue == Init /\ [][NextQueue]_vars

\* The crawl: the handlers make their two calls in two steps, so that the
\* processor may take the listing before the task is reported, and the
\* processor puts the tasks the listings make it put. No listing that
\* reaches the processor has entries (HandlerRaises), so that it calls
\* put_visited and never put_new.
NextCrawl ==
    \/ Tick
    \/ CrawlerGet
    \/ \E task \in BagToSet(executing) : HandlerPut(task)
    \/ \E task \in BagToSet(reporting) : HandlerReportDone(task)
    \/ \E task \in BagToSet(executing) : HandlerRaises(task)
    \/ \E task \in BagToSet(executing) : ExecuteErrorSite(task)
    \/ \E task \in BagToSet(executing) : ExecuteErrorDir(task)
    \/ \E t \in visited, changed \in BOOLEAN : PutVisited(t, changed)
    \/ \E t \in visited : NotFound(t)
    \/ Restart

SpecCrawl == Init /\ [][NextCrawl]_vars

-----------------------------------------------------------------------------
(* Vocabulary of the properties *)

RECURSIVE DigitsValue(_)
DigitsValue(d) ==
    IF d = << >> THEN 0 ELSE 10 * DigitsValue(SubSeq(d, 1, Len(d) - 1)) + d[Len(d)]

\* int(key): the time a key stands for
KeyTime(key) == DigitsValue(key.digits)

\* the records of a task database without the insertion ranks
Records(db) == [i \in DOMAIN db |-> [key |-> db[i].key, task |-> db[i].task]]

\* the records of sites.db that name a configured site
Configured(sdb) == SelectSeq(sdb, LAMBDA e : e.site_id \in sites_info)

\* site s may be contacted now and the task at the head of its queue is due
ReadySite(s) ==
    /\ s \in sites_info
    /\ \E i \in 1..Len(sites_db) :
          sites_db[i].site_id = s /\ KeyTime(sites_db[i].key) <= now
    /\ task_dbs[s] # << >>
    /\ KeyTime(task_dbs[s][1].key) <= now

\* a step in which a crawler thread got a task from get()
GetStep == BagCardinality(executing') > BagCardinality(executing)

\* the task it got
Got == CHOOSE t \in BagToSet(executing') :
           CopiesIn(t, executing') > CopiesIn(t, executing)

\* a step in which report_done, report_error_site or report_error_dir
\* (the kind) was called for a task of site s
ReportStep(s, kind) ==
    /\ last_report'[s] # last_report[s]
    /\ last_report'[s].kind = kind

\* the task reported in a report step
Reported == CHOOSE t \in BagToSet(executing (+) reporting) :
                CopiesIn(t, executing (+) reporting)
                    > CopiesIn(t, executing' (+) reporting')

\* a step in which the processor called put_visited
PutVisitedStep ==
    /\ visited' # visited
    /\ visited' \subseteq visited
    /\ task_dbs' # task_dbs
    /\ sites_info' = sites_info

RECURSIVE Drain(_, _, _)
\* the results the loop of ProcessorManager.run is given when every result
\* is processed and reported done and no result is put
Drain(info, sdb, dbs) ==
    LET g == result_get(info, sdb, dbs)
    IN  IF g.ret = EmptyQueue THEN << >>
        ELSE LET r == result_report_done(info, g.sites_db, dbs, g.ret)
             IN  <<g.ret>> \o Drain(info, r.sites_db, r.result_dbs)

\* the same for the queue as it is
rq_drain == Drain(rq_sites_info, rq_sites_db, rq_result_dbs)

\* a step in which put() was called
ResultPutStep ==
    /\ Len(rq_put_order') = Len(rq_put_order) + 1
    /\ rq_got' = rq_got

\* a step in which the reader of the queue called get() and got a result
ResultGetStep == rq_got = NoResult /\ rq_got' # NoResult

\* a step in which the reader called report_done() for the result it got
ResultReportDoneStep ==
    /\ rq_got # NoResult
    /\ rq_got' = NoResult
    /\ rq_sites_info' = rq_sites_info
    /\ Len(rq_put_order') < Len(rq_put_order)

\* a step in which the reader called report_error() for the result it got
ResultReportErrorStep ==
    /\ rq_got # NoResult
    /\ rq_got' = NoResult
    /\ rq_sites_info' = rq_sites_info
    /\ Len(rq_put_order') = Len(rq_put_order)
    /\ rq_sites_db' # rq_sites_db \/ rq_result_dbs' # rq_result_dbs
          \/ Len(rq_put_order) = 1

\* what ResultQueue.get() does in the state as it is
rq_get == result_get(rq_sites_info, rq_sites_db, rq_result_dbs)

\* len(ResultQueue) in the state as it is
rq_len == result_len(rq_sites_info, rq_result_dbs)

-----------------------------------------------------------------------------
(* The claims *)

\* C2: when get() returns a task, the task is the head (least key, first
\* inserted among equal keys) of the task queue of a configured site, the
\* site's key in the sites queue and the task's key are both <= now, one
\* record of that site is removed from the sites queue and no record of
\* another configured site is, and the task stays in its queue. get() is
\* one step of the caller: it returns in every state.
C2_GetReturnsReadyHead ==
    [][GetStep =>
        LET task == Got
            s == task.site_id
            db == task_dbs[s]
        IN  /\ s \in sites_info
            /\ db # << >>
            /\ db[1].task = task
            /\ \A i \in 2..Len(db) :
                  \/ KeyTime(db[1].key) < KeyTime(db[i].key)
                  \/ db[1].key = db[i].key /\ db[1].ord < db[i].ord
            /\ KeyTime(db[1].key) <= now
            /\ \E i \in 1..Len(Configured(sites_db)) :
                  /\ Configured(sites_db)[i].site_id = s
                  /\ KeyTime(Configured(sites_db)[i].key) <= now
                  /\ Configured(sites_db') = db_delete(Configured(sites_db), i)
            /\ task_dbs' = task_dbs]_vars

\* a crawler holds the root task of a site while the task is still the head
\* of the site's queue and the site is out of the sites queue
C2_Witness ==
    \E t \in BagToSet(executing) :
        /\ task_dbs[t.site_id] # << >>
        /\ task_dbs[t.site_id][1].task = t
        /\ t.site_id \notin sites_db_values(sites_db)
        /\ Len(sites_db) > 0

\* C3: get() raises EmptyQueue only when no configured site has both a
\* sites-queue key <= now and a head task with key <= now; otherwise it
\* returns a task of such a site, and the ready sites it passes over because
\* their head task is not due stay in the sites queue.
C3_EmptyQueueOnlyWhenNothingReady ==
    /\ (get.ret = EmptyQueue) <=> ~(\E s \in Sites : ReadySite(s))
    /\ get.ret # EmptyQueue =>
          /\ ReadySite(get.ret.site_id)
          /\ Len(Configured(get.sites_db)) = Len(Configured(sites_db)) - 1
    /\ get.ret = EmptyQueue => Configured(get.sites_db) = Configured(sites_db)

\* get() passes over a site that may be contacted but whose head task is
\* not due, and returns a task of a site further in the sites queue
C3_Witness ==
    /\ Len(sites_db) >= 2
    /\ sites_db[1].site_id \in sites_info
    /\ KeyTime(sites_db[1].key) <= now
    /\ task_dbs[sites_db[1].site_id] # << >>
    /\ KeyTime(task_dbs[sites_db[1].site_id][1].key) > now
    /\ get.ret # EmptyQueue
    /\ get.ret.site_id = sites_db[2].site_id
    /\ sites_db[1] \in {get.sites_db[i] : i \in 1..Len(get.sites_db)}

\* C4: report_done(task) at time t removes the task from the queue of its
\* site s, and no get() returns a task of s before t + request_wait(s),
\* whatever tasks of s are due; from t + request_wait(s) on the site is
\* ready again, so that get() returns a task and, when it is a task of s
\* (as it is when no other site is ready), the task at the head of s's queue.
C4_PolitenessAfterDone ==
    /\ [][\A s \in Sites :
            /\ ReportStep(s, "done") =>
                  /\ task_dbs[s] # << >>
                  /\ task_dbs[s][1].task = Reported
                  /\ Records(task_dbs'[s]) = Tail(Records(task_dbs[s]))
            /\ (GetStep /\ Got.site_id = s /\ last_report[s].kind = "done") =>
                  now >= last_report[s].time + site_options[s].request_wait
         ]_vars
    /\ [](\A s \in Sites :
            (/\ last_report[s].kind = "done"
             /\ now >= last_report[s].time + site_options[s].request_wait
             /\ task_dbs[s] # << >>
             /\ KeyTime(task_dbs[s][1].key) <= now)
            => /\ get.ret # EmptyQueue
               /\ get.ret.site_id = s => get.ret = task_dbs[s][1].task
               /\ (\A o \in Sites \ {s} : ~ReadySite(o)) => get.ret.site_id = s)

\* C5: after report_error_site(task) at time t the task stays at the head
\* of its site's queue, no get() returns a task of the site before
\* t + error_site_wait, and the first task of the site get() returns after
\* that is the same task; so it is after every site error in a row.
C5_SiteErrorKeepsTask ==
    /\ [][\A s \in Sites :
            /\ ReportStep(s, "error_site") =>
                  /\ task_dbs'[s] = task_dbs[s]
                  /\ task_dbs[s] # << >>
                  /\ task_dbs[s][1].task = Reported
            /\ (GetStep /\ Got.site_id = s /\ last_report[s].kind = "error_site") =>
                  /\ now >= last_report[s].time + site_options[s].error_site_wait
                  /\ Got = last_report[s].task
         ]_vars
    /\ [](\A s \in Sites :
            last_report[s].kind = "error_site" =>
               /\ task_dbs[s] # << >>
               /\ task_dbs[s][1].task = last_report[s].task
               /\ now < last_report[s].time + site_options[s].error_site_wait
                     => (get.ret = EmptyQueue \/ get.ret.site_id # s)
               /\ (/\ now < last_report[s].time + site_options[s].error_site_wait
                   /\ \A o \in Sites \ {s} : ~ReadySite(o))
                     => get.ret = EmptyQueue)

\* C6: report_error_dir(task) at time t takes the task from the head of its
\* site's queue and puts it back once, counters unchanged, with the key
\* t + error_dir_wait; the site is put in the sites queue once with the key
\* t + request_wait; and get() does not return that task (the only task of
\* the site with that content) before t + error_dir_wait.
C6_DirErrorReschedulesTask ==
    [][\A s \in Sites :
         /\ ReportStep(s, "error_dir") =>
              LET task == Reported
                  db == task_dbs[s]
                  later == now + site_options[s].error_dir_wait
              IN  /\ db # << >>
                  /\ db[1].task = task
                  /\ Len(task_dbs'[s]) = Len(db)
                  /\ \E i \in 1..Len(db) :
                        /\ KeyTime(task_dbs'[s][i].key) = later
                        /\ task_dbs'[s][i].task = task
                        /\ db_delete(Records(task_dbs'[s]), i) = Tail(Records(db))
                  /\ \E i \in 1..Len(sites_db') :
                        /\ sites_db'[i].site_id = s
                        /\ KeyTime(sites_db'[i].key)
                              = now + site_options[s].request_wait
                        /\ db_delete(sites_db', i) = sites_db
         /\ (/\ GetStep
             /\ Got.site_id = s
             /\ last_report[s].kind = "error_dir"
             /\ Got = last_report[s].task
             /\ Cardinality({i \in 1..Len(task_dbs[s]) :
                                task_dbs[s][i].task = Got}) = 1) =>
                now >= last_report[s].time + site_options[s].error_dir_wait
         /\ (GetStep /\ Got.site_id = s /\ last_report[s].kind = "error_dir") =>
                now >= last_report[s].time + site_options[s].request_wait
      ]_vars

\* C9: len(TaskQueue) = (root tasks seeded at open) + (put_new calls)
\* + (put_visited calls) - (report_done calls); get(), report_error_site()
\* and report_error_dir() leave the length as it is.
C9_LengthAccounting ==
    tq_len = expected_len

\* tasks were put with put_new and with put_visited, and a task whose
\* directory error was reported is back in the queue
C9_Witness ==
    /\ \E s \in Sites : \E i \in 1..Len(task_dbs[s]) :
          task_dbs[s][i].task.revisit_count = 0
    /\ \E s \in Sites : \E i \in 1..Len(task_dbs[s]) :
          task_dbs[s][i].task.url # RootUrl
    /\ \E s \in Sites : last_report[s].kind = "error_dir"

\* a step of put_new for site s
PutNewStep(s) ==
    /\ Len(task_dbs'[s]) = Len(task_dbs[s]) + 1
    /\ visited' = visited
    /\ now' = now
    /\ BagCardinality(executing') = BagCardinality(executing)
    /\ last_report' = last_report

\* C10: within a site get() serves the tasks in the order of (key,
\* insertion): every task database is ordered by key and, within a key, by
\* insertion, and get() returns the first record; a task put with put_new
\* has the key now, so it is due at once and comes after the tasks put
\* before it in the same second.
C10_FifoWithinSite ==
    /\ [](\A s \in Sites : \A i, j \in 1..Len(task_dbs[s]) :
            i < j =>
               \/ KeyTime(task_dbs[s][i].key) < KeyTime(task_dbs[s][j].key)
               \/ /\ task_dbs[s][i].key = task_dbs[s][j].key
                  /\ task_dbs[s][i].ord < task_dbs[s][j].ord)
    /\ [][\A s \in Sites :
            /\ PutNewStep(s) =>
                 \E i \in 1..Len(task_dbs'[s]) :
                    /\ task_dbs'[s][i].ord = Len(task_dbs'[s])
                    /\ KeyTime(task_dbs'[s][i].key) = now
                    /\ task_dbs'[s][i].task.revisit_count = -1
            /\ (GetStep /\ Got.site_id = s) =>
                 /\ task_dbs[s][1].task = Got
                 /\ \A i \in 2..Len(task_dbs[s]) :
                       task_dbs[s][i].key = task_dbs[s][1].key
                          => task_dbs[s][1].ord < task_dbs[s][i].ord
         ]_vars

\* two tasks never visited, put in the same second, wait in the queue of a
\* site, and get() returns the one put first
C10_Witness ==
    \E s \in Sites :
        /\ Len(task_dbs[s]) >= 2
        /\ task_dbs[s][1].key = task_dbs[s][2].key
        /\ task_dbs[s][1].task.revisit_count = -1
        /\ task_dbs[s][2].task.revisit_count = -1
        /\ get.ret = task_dbs[s][1].task

\* C7: when the queue is opened, on whatever the runs before have left,
\* every configured site that has no task database gets one that holds
\* exactly one task, the root task of the site, with the key now; the task
\* database of every site that is not configured is removed, and get()
\* returns no task of a site that is not configured; the task database of a
\* site configured before and after keeps its records, keys and order.
C7_StartupReconciliation ==
    /\ \A cfg \in Configurations : \A order \in Orders(cfg) :
          LET q == TaskQueue_init(cfg, order)
          IN  /\ q.db_files = cfg
              /\ \A s \in Sites :
                    /\ (s \in cfg /\ s \notin db_files) =>
                          /\ Len(q.task_dbs[s]) = 1
                          /\ q.task_dbs[s][1].task = CrawlTask(s, RootUrl)
                          /\ KeyTime(q.task_dbs[s][1].key) = now
                          /\ StrLen(q.task_dbs[s][1].key) = KeyLength
                    /\ s \notin cfg => q.task_dbs[s] = << >>
                    /\ (s \in cfg /\ s \in db_files) =>
                          q.task_dbs[s] = task_dbs[s]
    /\ db_files = sites_info
    /\ \A s \in Sites \ sites_info : task_dbs[s] = << >>
    /\ get.ret # EmptyQueue => get.ret.site_id \in sites_info

\* site s2 was removed from the configuration while tasks waited in its
\* queue and was added again later: its queue holds the root task alone,
\* and the queue of s1 has kept a task put by the processor
C7_Witness ==
    /\ sites_info = Sites
    /\ Len(task_dbs["s2"]) = 1
    /\ KeyTime(task_dbs["s2"][1].key) > Epoch
    /\ task_dbs["s2"][1].task = CrawlTask("s2", RootUrl)
    /\ \E i \in 1..Len(task_dbs["s1"]) : task_dbs["s1"][i].task.url # RootUrl

\* C8: after TaskQueue is opened, on whatever the runs before have left
\* (a site removed from the configuration in one run and added again in a
\* later one, a run stopped with a task in flight), the id of every
\* configured site is in the sites queue exactly once.
C8_EverySiteOnceAfterOpen ==
    \A cfg \in Configurations : \A order \in Orders(cfg) :
        LET q == TaskQueue_init(cfg, order)
        IN  \A s \in cfg :
               Cardinality({i \in 1..Len(q.sites_db) :
                               q.sites_db[i].site_id = s}) = 1

\* C1: in every state of the crawl, whatever the interleaving of the calls
\* of the crawlers, the handlers and the processor and across restarts, no
\* two records of the TaskQueue hold tasks with the same (site_id, url).
C1_NoTaskTwice ==
    \A s \in Sites : \A i, j \in 1..Len(task_dbs[s]) :
        task_dbs[s][i].task.url = task_dbs[s][j].task.url => i = j

\* C11: put_visited(task, changed) at time t adds one record to the queue of
\* the task's site and changes nothing else: the record holds the task (its
\* site and URL) with its counters updated, under the key t + revisit_wait
\* for the revisit_wait the record holds. get() returns no task whose key
\* is later than now, and when one site alone is ready it returns the task
\* at the head of that site's queue: the directory is listed again once
\* its revisit wait and the site's request wait have elapsed, not before.
C11_PutVisitedSchedulesRevisit ==
    [][LET Served ==
               /\ get.ret # EmptyQueue =>
                     /\ get.ret = task_dbs[get.ret.site_id][1].task
                     /\ KeyTime(task_dbs[get.ret.site_id][1].key) <= now
               /\ \A s \in Sites :
                     (ReadySite(s) /\ \A o \in Sites \ {s} : ~ReadySite(o))
                         => get.ret = task_dbs[s][1].task
       IN  /\ PutVisitedStep =>
                \E t \in visited \ visited' :
                    LET s == t.site_id
                        old == task_dbs[s]
                        new == task_dbs'[s]
                    IN  /\ Len(new) = Len(old) + 1
                        /\ \E i \in 1..Len(new) :
                              /\ new[i].task.site_id = s
                              /\ new[i].task.url = t.url
                              /\ new[i].task.revisit_count >= 0
                              /\ KeyTime(new[i].key)
                                    = now + new[i].task.revisit_wait
                              /\ StrLen(new[i].key) = KeyLength
                              /\ Records(db_delete(new, i)) = Records(old)
                        /\ \A o \in Sites \ {s} : task_dbs'[o] = task_dbs[o]
                        /\ sites_db' = sites_db
           /\ Served
           /\ Served']_vars

\* a crawler lists a directory again, after the wait the estimator has set
C11_Witness ==
    \E t \in BagToSet(executing) :
        /\ t.revisit_count = 0
        /\ t.revisit_wait # site_options[t.site_id].default_revisit_wait
        /\ task_dbs[t.site_id] # << >>
        /\ task_dbs[t.site_id][1].task = t
        /\ KeyTime(task_dbs[t.site_id][1].key) <= now

C13_EstimatorFiresAtFive ==
    \A t \in visited : \A changed \in BOOLEAN :
        LET u == report_visit(t, changed)
            v == visited_task(t, changed)
            estimated == _estimate_revisit_wait(u)
            minimum == site_options[t.site_id].min_revisit_wait
            maximum == site_options[t.site_id].max_revisit_wait
        IN  /\ u.revisit_count <= REVISITS
            /\ u.revisit_count = REVISITS =>
                  /\ v.revisit_count = 0
                  /\ v.change_count = 0
                  /\ v.revisit_wait >= minimum
                  /\ v.revisit_wait <= maximum
                  /\ estimated < minimum => v.revisit_wait = minimum
                  /\ estimated > maximum => v.revisit_wait = maximum
                  /\ (estimated >= minimum /\ estimated <= maximum)
                        => v.revisit_wait = estimated
            /\ u.revisit_count \in 1..(REVISITS - 1) =>
                  /\ v.revisit_wait = t.revisit_wait
                  /\ v.revisit_count = u.revisit_count
                  /\ v.change_count = u.change_count

\* the fifth counted visit of a directory is being processed, and the
\* estimate for a changed directory is below the minimum
C13_Witness ==
    \E t \in visited :
        /\ t.revisit_count = REVISITS - 1
        /\ _estimate_revisit_wait(report_visit(t, TRUE))
              < site_options[t.site_id].min_revisit_wait

\* C14: when the estimator fires and no counted visit has seen a change, the
\* estimate is revisit_wait * revisit_count, five times the revisit_wait.
C14_NoChangeEstimate ==
    \A t \in visited : \A changed \in BOOLEAN :
        LET u == report_visit(t, changed)
        IN  (u.revisit_count >= REVISITS /\ u.change_count = 0) =>
                /\ _estimate_revisit_wait(u)
                      = u.revisit_wait * u.revisit_count
                /\ _estimate_revisit_wait(u) = 5 * t.revisit_wait

\* the fifth counted visit of a directory that never changed is being
\* processed, and the estimate is above the maximum
C14_Witness ==
    \E t \in visited :
        /\ t.revisit_count = REVISITS - 1
        /\ t.change_count = 0
        /\ _estimate_revisit_wait(report_visit(t, FALSE))
              > site_options[t.site_id].max_revisit_wait

\* C15: when the estimator fires and every counted visit has seen a change,
\* the estimate is the revisit_wait the task has.
C15_AllChangeEstimateIsWait ==
    \A t \in visited : \A changed \in BOOLEAN :
        LET u == report_visit(t, changed)
        IN  (u.revisit_count >= REVISITS
                /\ u.change_count = u.revisit_count) =>
                _estimate_revisit_wait(u) = u.revisit_wait

\* C15 as the code has it: the estimate is the integer nearest to
\* revisit_wait / ln(2 * revisit_count + 1), with ln(11) = 2.397895 for the 5
\* counted visits, and so less than the revisit_wait.
C15_AllChangeEstimate ==
    \A t \in visited : \A changed \in BOOLEAN :
        LET u == report_visit(t, changed)
            estimated == _estimate_revisit_wait(u)
            diff == estimated * 2397895 - u.revisit_wait * 1000000
        IN  (u.revisit_count >= REVISITS
                /\ u.change_count = u.revisit_count) =>
                /\ u.revisit_count = 5
                /\ 2 * diff <= 2397895
                /\ 2 * diff > -2397895
                /\ estimated < u.revisit_wait

\* the fifth counted visit of a directory that changed every time is being
\* processed
C15_Witness ==
    \E t \in visited :
        /\ t.revisit_count = REVISITS - 1
        /\ t.change_count = REVISITS - 1
        /\ t.revisit_wait > 0

\* C16: the result queue returns the results in the order in which they
\* were put, whatever their sites: get() returns the earliest put of the
\* results that are not reported done, which is the result its reader holds
\* until it reports it, and raises EmptyQueue when there is none.
C16_GlobalFifo ==
    /\ rq_get.ret = IF rq_put_order = << >> THEN EmptyQueue
                    ELSE Head(rq_put_order)
    /\ rq_got # NoResult =>
          rq_put_order # << >> /\ rq_got = Head(rq_put_order)

\* C17: get() takes nothing out of the queue. A result put in a queue
\* without results is the result get() then returns, with its task, found
\* flag and entries; a get() leaves the result databases and the length as
\* they are and a second get() returns the same result and changes nothing;
\* until the reader reports the result it holds, get() returns that result;
\* and get() raises EmptyQueue when the queue holds no result.
C17_GetIsNonDestructive ==
    [][LET Same ==
               LET g1 == rq_get
                   g2 == result_get(rq_sites_info, g1.sites_db, rq_result_dbs)
               IN  /\ g2 = g1
                   /\ rq_got # NoResult => g1.ret = rq_got
                   /\ rq_len = 0 => g1.ret = EmptyQueue
       IN  /\ Same
           /\ Same'
           /\ (ResultPutStep /\ rq_len = 0) =>
                 /\ rq_get'.ret = rq_put_order'[Len(rq_put_order')]
                 /\ rq_get'.ret \in Results
           /\ ResultGetStep =>
                 /\ rq_result_dbs' = rq_result_dbs
                 /\ rq_len' = rq_len
                 /\ rq_get'.ret = rq_got']_vars

\* the reader holds a listing with an entry while another result is queued
\* behind it
C17_Witness ==
    /\ rq_got # NoResult
    /\ rq_got.entries # << >>
    /\ rq_len >= 2
    /\ rq_get.ret = rq_got

\* C18: put() adds 1 to the length of the queue. report_done(result), called
\* for the result get() returned, takes 1 from the length: the result is the
\* first record of the database of its site, that record is deleted and no
\* other is, and the results left are returned in the order in which they
\* would have been returned.
C18_PutAndReportDoneLength ==
    [][/\ ResultPutStep => rq_len' = rq_len + 1
       /\ ResultReportDoneStep =>
             LET s == rq_got.task.site_id
             IN  /\ rq_len' = rq_len - 1
                 /\ rq_result_dbs[s] # << >>
                 /\ cPickle_loads(rq_result_dbs[s][1].value) = rq_got
                 /\ rq_result_dbs'[s] = Tail(rq_result_dbs[s])
                 /\ \A o \in Sites \ {s} :
                       rq_result_dbs'[o] = rq_result_dbs[o]
                 /\ rq_drain # << >>
                 /\ rq_drain[1] = rq_got
                 /\ Drain(rq_sites_info', rq_sites_db', rq_result_dbs')
                       = Tail(rq_drain)]_vars

\* a result was reported done and two results of its site are left
C18_Witness ==
    /\ rq_got = NoResult
    /\ \E s \in rq_sites_info : Len(rq_result_dbs[s]) = 2
    /\ Len(rq_sites_db) = 2
    /\ rq_len = 2

\* C19: report_error(result), called for the result get() returned, leaves
\* the length of the queue as it is and moves the result behind every other
\* result: the results that were queued with it are returned in their
\* order and then the result is returned again; when it is the only result
\* the next get() returns it.
C19_ReportErrorMovesToTail ==
    [][ResultReportErrorStep =>
          /\ rq_len' = rq_len
          /\ rq_drain # << >>
          /\ rq_drain[1] = rq_got
          /\ Drain(rq_sites_info', rq_sites_db', rq_result_dbs')
                = Append(Tail(rq_drain), rq_got)
          /\ rq_len = 1 => rq_get'.ret = rq_got]_vars

SiteFailures ==
    {"connection_refused", "timeout", "read_timeout", "login_denied",
     "http_401", "EOFError"}

\* the answers that say that the directory does not exist
Absent == {"http_404", "cwd_denied", "not_a_directory"}

\* C21: every ProtocolHandler.execute(task) that returns makes exactly one
\* of the calls report_done, report_error_dir, report_error_site, for that
\* task; it puts a CrawlResult if and only if it calls report_done, and puts
\* it before; a result with found = true comes from a listing and one with
\* found = false from an absent directory (HTTP 404, FTP CWD failure); and a
\* connection, timeout, authentication or EOF failure leads to
\* report_error_site.
C21_HandlerProtocol ==
    calls.by = "execute" =>
        LET reports == task_reports(calls.seq)
            puts == result_puts(calls.seq)
        IN  /\ calls.returned =>
                  /\ Len(reports) = 1
                  /\ reports[1].task = calls.arg
                  /\ reports[1].op \in {"report_done", "report_error_dir",
                                        "report_error_site"}
                  /\ Len(puts) = 1 <=> reports[1].op = "report_done"
                  /\ Len(puts) <= 1
                  /\ puts # << >> =>
                        /\ calls.seq[1].op = "put"
                        /\ puts[1].task = calls.arg
                        /\ puts[1].flag =>
                              calls.outcome \in {"listed", "listed_empty"}
                        /\ ~puts[1].flag => calls.outcome \in Absent
            /\ calls.outcome \in SiteFailures =>
                  /\ reports # << >>
                  /\ reports[1].op = "report_error_site"

\* C22: when the processing of a result fails, the processor has called
\* ResultQueue.report_error, the result is at the tail of the queue, and the
\* thread of the processor goes on.
C22_ProcessorReportsError ==
    (calls.by = "process" /\ ~calls.returned) =>
        /\ \E i \in DOMAIN calls.seq : calls.seq[i].op = "report_error"
        /\ ProcessorRuns
        /\ rq_drain # << >>
        /\ rq_drain[Len(rq_drain)] = calls.arg

\* process has returned in this step: the processor held a result and has
\* reported it
ProcessStep ==
    /\ rq_got # NoResult
    /\ rq_got' = NoResult
    /\ calls'.by = "process"
    /\ calls'.returned

\* the string s starts with the string prefix
StartsWith(s, prefix) ==
    /\ Len(s) >= Len(prefix)
    /\ SubSeq(s, 1, Len(prefix)) = prefix

\* the document d is that of the directory P of the site s or of an entry
\* below it
InSubtree(d, s, P) ==
    /\ d.site_id = s
    /\ \/ d.path = P
       \/ StartsWith(d.dirname, rstrip(P, "/") \o <<"/">>)

\* the calls op among the calls cs
CallsOf(cs, op) == SelectSeq(cs, LAMBDA c : c.op = op)

\* C23: after IndexProcessor.process has handled a found = false result for
\* the path P of the site s, the index has no document of s whose PATH is P
\* or whose DIRNAME starts with P.rstrip('/') + '/'; the documents of other
\* sites and of paths outside the subtree are as they were; put_visited (or
\* put_new) is not called, the TaskQueue is as it was, and the result is
\* reported done, which takes it from the ResultQueue.
C23_NotFoundRemovesSubtree ==
    [][(ProcessStep /\ ~rq_got.found) =>
          LET s == rq_got.task.site_id
              P == path(rq_got.task.url)
          IN  /\ \A d \in DOMAIN index' : ~InSubtree(d, s, P)
              /\ \A d \in DOMAIN index :
                    ~InSubtree(d, s, P) =>
                        d \in DOMAIN index' /\ index'[d] = index[d]
              /\ DOMAIN index' \subseteq DOMAIN index
              /\ calls'.seq = <<Call("report_done", rq_got.task, FALSE)>>
              /\ task_dbs' = task_dbs
              /\ sites_db' = sites_db
              /\ rq_len' = rq_len - 1
              /\ Drain(rq_sites_info', rq_sites_db', rq_result_dbs')
                    = Tail(rq_drain)]_vars

\* the answer that /a of s1 does not exist is processed: the document of /a
\* is gone, the root document and that of /ab, and those of s2, are there
C23_Witness ==
    /\ calls.by = "process"
    /\ calls.returned
    /\ ~calls.arg.found
    /\ calls.arg.task.site_id = "s1"
    /\ calls.arg.task.url = <<"a">>
    /\ \E d \in DOMAIN index : d.site_id = "s1" /\ d.is_root
    /\ \E d \in DOMAIN index : d.site_id = "s1" /\ d.path = path(<<"ab">>)
    /\ \E d \in DOMAIN index : d.site_id = "s2"
    /\ \A d \in DOMAIN index : ~InSubtree(d, "s1", path(<<"a">>))

\* the documents of the entries of the directory of the task in the index
\* ix: those of its site whose DIRNAME is the path of the directory with one
\* trailing slash, the document of the root directory itself left out
Children(ix, task) ==
    {d \in DOMAIN ix :
        /\ d.site_id = task.site_id
        /\ d.dirname = rstrip(path(task.url), "/") \o <<"/">>
        /\ d.basename # "/"}

\* C24: after IndexProcessor.process has handled a found = true result with
\* the entries E for the directory P of the site s, whatever the index held,
\* the basenames of the documents of s whose DIRNAME is P.rstrip('/') + '/'
\* (the root's own document left out) are the names in E, and each of these
\* documents has the is_dir of its entry in the listing.
C24_ChildrenAreTheListing ==
    [][(ProcessStep /\ rq_got.found) =>
          LET children == Children(index', rq_got.task)
          IN  /\ {d.basename : d \in children} = DOMAIN rq_got.entries
              /\ \A d \in children :
                    /\ d.basename \in DOMAIN rq_got.entries
                    /\ d.is_dir = rq_got.entries[d.basename].is_dir]_vars

\* C25: when a found = true result for the directory P does not list an
\* entry that is indexed as a directory D under P, then after the processing
\* the document of D and every document whose DIRNAME begins with D + '/'
\* are removed from the index, and put_visited is called with changed = true.
C25_RemovedDirectoryIsPurged ==
    [][(ProcessStep /\ rq_got.found) =>
          \A D \in Children(index, rq_got.task) :
              (D.is_dir /\ D.basename \notin DOMAIN rq_got.entries) =>
                  /\ \A d \in DOMAIN index' :
                        ~InSubtree(d, D.site_id, D.path)
                  /\ CallsOf(calls'.seq, "put_visited")
                        = <<Call("put_visited", rq_got.task, TRUE)>>]_vars

\* the number of documents of the site in the index ix that carry the term
\* of the root directory
RootDocuments(ix, site_id) ==
    BagCardinality([d \in {e \in DOMAIN ix :
                              e.site_id = site_id /\ e.is_root} |-> ix[d]])

\* C26: in every reachable state of the index a site has at most one
\* document with is_root = 1; after a found = true result for the root URL of
\* the site is processed it has exactly one; and the processing of the
\* listing of the root never deletes the document of the root, whatever the
\* entries of the listing.
C26_OneRootDocument ==
    /\ [](\A s \in Sites : RootDocuments(index, s) <= 1)
    /\ [][(ProcessStep /\ rq_got.found /\ is_root(rq_got.task.url)) =>
             /\ RootDocuments(index', rq_got.task.site_id) = 1
             /\ \A d \in DOMAIN index :
                   (d.site_id = rq_got.task.site_id /\ d.is_root) =>
                       d \in DOMAIN index']_vars

\* the root of s1 was listed again with entries while its document was
\* indexed, and the site has its one document of the root
C26_Witness ==
    /\ calls.by = "process"
    /\ calls.returned
    /\ calls.arg.found
    /\ is_root(calls.arg.task.url)
    /\ calls.arg.task.revisit_count >= 0
    /\ DOMAIN calls.arg.entries # {}
    /\ RootDocuments(index, calls.arg.task.site_id) = 1

\* the entries of the result that the index holds with the same is_dir flag
KeptEntries(ix, result) ==
    {n \in DOMAIN result.entries :
        \E d \in Children(ix, result.task) :
            d.basename = n /\ d.is_dir = result.entries[n].is_dir}

\* C27: the processing of a found = true result inserts one new document
\* for every listed entry that is not already indexed with the same is_dir
\* flag, and calls TaskQueue.put_new exactly once for each such entry that is
\* a directory and never for a file or a kept entry; a first root listing
\* {a (directory), ab (file)} leaves exactly three documents of the site
\* (root, a, ab) and exactly two queued tasks (the revisit of the root and
\* the new task of /a).
C27_NewEntriesIndexedAndQueued ==
    [][(ProcessStep /\ rq_got.found) =>
          LET s == rq_got.task.site_id
              E == rq_got.entries
              kept == KeptEntries(index, rq_got)
              new == DOMAIN E \ kept
              doc(n) == _create_document(s, E[n])
              new_dirs == {n \in new : E[n].is_dir}
              put_news == CallsOf(calls'.seq, "put_new")
              of_site(ix) == [d \in {e \in DOMAIN ix : e.site_id = s}
                                 |-> ix[d]]
          IN  /\ \A n \in new : CopiesIn(doc(n), index') = 1
              /\ \A n \in kept :
                    CopiesIn(doc(n), index') = CopiesIn(doc(n), index)
              /\ Len(put_news) = Cardinality(new_dirs)
              /\ {put_news[i] : i \in DOMAIN put_news}
                    = {Call("put_new", CrawlTask(s, E[n].url), FALSE) :
                          n \in new_dirs}
              /\ ( /\ is_root(rq_got.task.url)
                   /\ of_site(index) = EmptyBag
                   /\ task_dbs[s] = << >>
                   /\ DOMAIN E = {"a", "ab"}
                   /\ E["a"].is_dir /\ ~E["ab"].is_dir )
                 => /\ BagCardinality(of_site(index')) = 3
                    /\ Len(task_dbs'[s]) = 2
                    /\ {task_dbs'[s][i].task.url : i \in 1..2}
                          = {RootUrl, E["a"].url}]_vars

\* the first listing of the root of s1, {a (directory), ab (file)}, was
\* processed: three documents and one put_new
C27_Witness ==
    /\ calls.by = "process"
    /\ calls.returned
    /\ calls.arg.found
    /\ is_root(calls.arg.task.url)
    /\ calls.arg.task.revisit_count = -1
    /\ DOMAIN calls.arg.entries = {"a", "ab"}
    /\ calls.arg.entries["a"].is_dir
    /\ Len(CallsOf(calls.seq, "put_new")) = 1
    /\ BagCardinality(index) = 3

\* the listing of the result differs from the indexed entries of its
\* directory: an indexed entry is not listed, is listed with another is_dir
\* flag, or a listed entry is not indexed
ListingDiffers(ix, result) ==
    LET children == Children(ix, result.task)
        E == result.entries
    IN  \/ \E d \in children : d.basename \notin DOMAIN E
        \/ \E d \in children :
              d.basename \in DOMAIN E /\ d.is_dir # E[d.basename].is_dir
        \/ \E n \in DOMAIN E : \A d \in children : d.basename # n

\* C28: for every found = true result IndexProcessor.process calls
\* TaskQueue.put_visited(task, changed) exactly once and then
\* ResultQueue.report_done(result) exactly once, in this order, and changed
\* is true exactly when the listing differs from the indexed entries of the
\* directory.
C28_VisitedThenDone ==
    [][(ProcessStep /\ rq_got.found) =>
          LET cs == calls'.seq
              changed == ListingDiffers(index, rq_got)
          IN  /\ Len(cs) >= 2
              /\ cs[Len(cs) - 1] = Call("put_visited", rq_got.task, changed)
              /\ cs[Len(cs)] = Call("report_done", rq_got.task, FALSE)
              /\ Len(CallsOf(cs, "put_visited")) = 1
              /\ Len(CallsOf(cs, "report_done")) = 1]_vars

\* a listing with entries that is the same as the indexed entries was
\* processed: put_visited(task, False), then report_done
C28_Witness ==
    /\ calls.by = "process"
    /\ calls.returned
    /\ calls.arg.found
    /\ DOMAIN calls.arg.entries # {}
    /\ calls.seq = <<Call("put_visited", calls.arg.task, FALSE),
                     Call("report_done", calls.arg.task, FALSE)>>

\* the documents of the site in the index ix, with their numbers
DocumentsOf(ix, site_id) ==
    [d \in {e \in DOMAIN ix : e.site_id = site_id} |-> ix[d]]

\* the keys of the site in a sites database
KeysOf(sdb, site_id) == SelectSeq(sdb, LAMBDA e : e.site_id = site_id)

\* C29: when a site is removed from the configuration between two runs,
\* after the next start the index holds no document with the id of the site
\* and neither queue has a database of the site, while the documents, the
\* tasks with their keys, the results and the keys in the sites databases of
\* every other configured site are as they were.
C29_RemovedSitePurged ==
    [][(sites_info' # sites_info) =>
          /\ \A r \in sites_info \ sites_info' :
                /\ DocumentsOf(index', r) = EmptyBag
                /\ r \notin db_files'
                /\ task_dbs'[r] = << >>
                /\ rq_result_dbs'[r] = << >>
          /\ \A s \in sites_info \cap sites_info' :
                /\ DocumentsOf(index', s) = DocumentsOf(index, s)
                /\ task_dbs'[s] = task_dbs[s]
                /\ rq_result_dbs'[s] = rq_result_dbs[s]
                /\ KeysOf(sites_db', s) = KeysOf(sites_db, s)
                /\ KeysOf(rq_sites_db', s) = KeysOf(rq_sites_db, s)]_vars

\* C29, with what the start does to the sites database of the tasks: the
\* removed site has no document and no database left, and the documents,
\* the tasks with their keys, the results and the keys in the sites databases
\* of every other configured site are as they were, except that a site
\* without a key in the sites database of the task queue (a task of it was
\* taken and not reported when the run ended) is put there with the time of
\* the start.
C29_RemovedSitePurgedKeysKept ==
    [][(sites_info' # sites_info) =>
          /\ \A r \in sites_info \ sites_info' :
                /\ DocumentsOf(index', r) = EmptyBag
                /\ r \notin db_files'
                /\ task_dbs'[r] = << >>
                /\ rq_result_dbs'[r] = << >>
          /\ \A s \in sites_info \cap sites_info' :
                /\ DocumentsOf(index', s) = DocumentsOf(index, s)
                /\ task_dbs'[s] = task_dbs[s]
                /\ rq_result_dbs'[s] = rq_result_dbs[s]
                /\ KeysOf(sites_db', s) =
                      IF KeysOf(sites_db, s) # << >>
                      THEN KeysOf(sites_db, s)
                      ELSE <<[key |-> _get_key(0), site_id |-> s]>>
                /\ KeysOf(rq_sites_db', s) = KeysOf(rq_sites_db, s)]_vars

\* the daemon was started without s2, whose documents were in the index,
\* while s1 has documents and tasks
C29_Witness ==
    /\ calls.by = "IndexProcessor"
    /\ calls.arg.old_site_ids = {"s2"}
    /\ sites_info = {"s1"}
    /\ BagCardinality(DocumentsOf(index, "s1")) >= 2
    /\ Len(task_dbs["s1"]) >= 2

\* stop() was called on every SiteCrawler and on the ProcessorManager
StopCalled == daemon.pc \in {"join", "close_results", "close_tasks", "done"}

\* C30: the shutdown terminates. Once the supervisor has called stop() on
\* every SiteCrawler and on the ProcessorManager, however soon after start(),
\* every thread ends at most the body it is in and leaves its loop, so that
\* the joins return and both queues are closed; and a queue is closed only
\* after every thread has ended.
C30_ShutdownTerminates ==
    /\ [](daemon.closed # {} => \A t \in Threads : threads[t].pc = "exited")
    /\ StopCalled ~> (daemon.pc = "done" /\ daemon.closed = {"results", "tasks"})

\* C31: PriorityQueue of aracne/utils/persist.py. After any puts with
\* non-negative integer priorities, several with the same priority among
\* them, the calls of get() return every item that was put exactly once, by
\* priority and in the order of the puts within a priority; len(queue) is
\* the puts minus the gets at every step; head() returns the next item and
\* removes nothing; get() and head() of an empty queue raise QueueError.
C31_PriorityQueueOrder ==
    LET last == pqueue.last
    IN  /\ Len(pqueue.db) = Len(pqueue.expected)
        /\ last.len = Len(pqueue.expected)
        /\ last.op \in {"get", "head"} =>
              last.result = IF last.before = << >> THEN QueueError
                            ELSE Head(last.before)
        /\ last.op = "head" => pqueue.expected = last.before

\* C32: Queue of aracne/utils/persistent.py. For any interleaving of
\* put(item) and get(), get() returns the items in the order they were put,
\* no item is lost or returned twice, and len(queue) is the number of puts
\* minus the number of successful gets.
C32_QueueIsFifo ==
    LET last == fqueue.last
    IN  /\ last.len = Len(fqueue.expected)
        /\ fqueue.counter = Len(fqueue.expected)
        /\ last.op = "get" =>
              last.result = IF last.before = << >> THEN QueueError
                            ELSE [item |-> Head(last.before)]

\* the number of records of the sites database sdb that are the record rec
CountOf(sdb, rec) == Cardinality({i \in 1..Len(sdb) : sdb[i] = rec})

\* the sites queue begins with the id of a configured site that may be
\* contacted now and whose task queue is empty
EmptySiteAtHead ==
    /\ sites_db # << >>
    /\ sites_db[1].site_id \in sites_info
    /\ ~StrGT(sites_db[1].key, _get_key(0))
    /\ task_dbs[sites_db[1].site_id] = << >>

\* C33: when TaskQueue.get() finds at the head of the sites queue the id of
\* a configured site whose task queue is empty, it deletes the id from the
\* sites queue and does not skip it.
C33_EmptySiteDeleted ==
    EmptySiteAtHead =>
        CountOf(get.sites_db, sites_db[1]) < CountOf(sites_db, sites_db[1])

\* C33 as the code has it: the id of a configured site whose task queue is
\* empty is passed over and stays at the head of the sites queue, and get()
\* goes on with the next id (EmptyQueue when there is none).
C33_EmptySiteSkipped ==
    EmptySiteAtHead =>
        /\ get.sites_db # << >>
        /\ get.sites_db[1] = sites_db[1]
        /\ CountOf(get.sites_db, sites_db[1]) = CountOf(sites_db, sites_db[1])
        /\ Len(sites_db) = 1 => get.ret = EmptyQueue
        /\ get.ret # EmptyQueue => get.ret.site_id # sites_db[1].site_id

\* get() passes over the id of a site whose only task was reported done and
\* returns a task of the next site
C33_Witness ==
    /\ EmptySiteAtHead
    /\ get.ret # EmptyQueue
    /\ Len(get.sites_db) = Len(sites_db) - 1

\* a site the daemon was running with before is ahead of every new site in
\* the sites queue, may be contacted now and has a task that is due
OldSiteAhead ==
    \E i \in 1..Len(sites_db) :
        LET s == sites_db[i].site_id
        IN  /\ s \in sites_info \ new_sites
            /\ KeyTime(sites_db[i].key) <= now
            /\ task_dbs[s] # << >>
            /\ KeyTime(task_dbs[s][1].key) <= now
            /\ \A j \in 1..(i - 1) : sites_db[j].site_id \notin new_sites

\* C34: after the TaskQueue is opened with a site newly added to the
\* configuration, the first successful get() returns the root task of that
\* site, before any task of a site configured before and whatever the keys
\* of those sites in the sites queue.
C34_NewSiteServedFirst ==
    (new_sites # {} /\ get.ret # EmptyQueue) =>
        /\ get.ret.site_id \in new_sites
        /\ get.ret = CrawlTask(get.ret.site_id, RootUrl)

\* C34 as the code has it: the new site is put in the sites queue with the
\* time of the opening as its key and its root task is due at once, so the
\* first get() after the opening succeeds, and it returns the root task of
\* the new site unless a site configured before has a task that is due and
\* is ahead of the new site in the sites queue, its key being due and not
\* later than the time of the opening.
C34_NewSiteServedUnlessOldAhead ==
    new_sites # {} =>
        /\ get.ret # EmptyQueue
        /\ get.ret.site_id \in new_sites =>
               get.ret = CrawlTask(get.ret.site_id, RootUrl)
        /\ ~OldSiteAhead => get.ret.site_id \in new_sites
        /\ OldSiteAhead => get.ret.site_id \notin new_sites

\* the queue was opened with the new site s2 while s1, configured before,
\* waits for a key later than now, and get() returns the root task of s2
C34_Witness ==
    /\ new_sites = {"s2"}
    /\ sites_info = Sites
    /\ \E i \in 1..Len(sites_db) :
          sites_db[i].site_id = "s1" /\ KeyTime(sites_db[i].key) > now
    /\ task_dbs["s1"] # << >>
    /\ get.ret = CrawlTask("s2", RootUrl)

\* the tasks of site s that get() has returned and that are not reported
InFlight(s) ==
    LET held == executing (+) reporting
    IN  BagCardinality([t \in {u \in BagToSet(held) : u.site_id = s} |->
                            CopiesIn(t, held)])

\* C35: at most one task of a site is in flight (returned by get() and not
\* reported by report_done, report_error_site or report_error_dir) at any
\* time, whatever the number of crawlers and the interleaving: no site is
\* contacted by two crawlers at once and no task is executed by two crawlers.
C35_OneTaskInFlightPerSite ==
    \A s \in Sites : InFlight(s) <= 1

\* C36: the task that report_done(task) or report_error_dir(task) deletes,
\* the head of the task queue of the site, is the task that the matching
\* get() returned, also when put_new or put_visited is called for the site
\* between the get() and the report: as long as a task is in flight it is
\* the head of the queue of its site.
C36_HeadIsTheTaskInFlight ==
    \A t \in BagToSet(executing (+) reporting) :
        /\ task_dbs[t.site_id] # << >>
        /\ task_dbs[t.site_id][1].task = t

\* site s may be contacted now and the head of its task queue is due
DueSite(s) ==
    /\ ReadySite(s)
    /\ KeyTime(task_dbs[s][1].key) <= now

\* a crawler is executing a task of site s
Served(s) == \E t \in BagToSet(executing) : t.site_id = s

IdsIn(sdb, s) == Cardinality({i \in 1..Len(sdb) : sdb[i].site_id = s})

\* C38: after every put, get, report_done and report_error of the result
\* queue, the id of each configured site is in the sites queue as many times
\* as the queue of the site holds results; and the report_done(result) that
\* the processor issues after get() removes the result get() returned, also
\* when crawlers have put results in between.
C38_IdsMatchResults ==
    /\ [](\A s \in rq_sites_info : IdsIn(rq_sites_db, s) = Len(rq_result_dbs[s]))
    /\ [][ResultReportDoneStep =>
             LET s == rq_got.task.site_id
             IN  /\ rq_result_dbs[s] # << >>
                 /\ cPickle_loads(rq_result_dbs[s][1].value) = rq_got
                 /\ rq_result_dbs'[s] = Tail(rq_result_dbs[s])
                 /\ IdsIn(rq_sites_db', s) = IdsIn(rq_sites_db, s) - 1
          ]_vars

\* the root directory of site s waits in the TaskQueue as a task or in the
\* ResultQueue as a result that is not reported done
RootPresent(s) ==
    \/ \E i \in 1..Len(task_dbs[s]) : task_dbs[s][i].task.url = RootUrl
    \/ \E i \in 1..Len(rq_result_dbs[s]) :
          cPickle_loads(rq_result_dbs[s][i].value).task.url = RootUrl

\* C39: a configured site never stops being crawled: in every reachable
\* state the root directory of the site is present as a task in the
\* TaskQueue or as a pending result in the ResultQueue, so that the root is
\* listed again and again.
C39_RootAlwaysPresent ==
    \A s \in sites_info : RootPresent(s)

\* C40: every task stored in the TaskQueue has -1 <= revisit_count <= 4 and
\* 0 <= change_count <= max(revisit_count, 0); and whenever put_visited
\* evaluates the estimator, the task it is given has
\* 0 <= change_count <= revisit_count = 5, so that the estimator divides by
\* no zero and takes the logarithm of a positive number.
C40_CounterInvariant ==
    /\ \A s \in Sites : \A i \in 1..Len(task_dbs[s]) :
          LET t == task_dbs[s][i].task
          IN  /\ t.revisit_count >= -1
              /\ t.revisit_count <= REVISITS - 1
              /\ t.change_count >= 0
              /\ t.change_count <= Max2(t.revisit_count, 0)
    /\ \A t \in visited : \A changed \in BOOLEAN :
          LET u == report_visit(t, changed)
          IN  u.revisit_count >= REVISITS =>
                  /\ u.revisit_count = 5
                  /\ u.change_count >= 0
                  /\ u.change_count <= u.revisit_count
                  /\ 2 * (u.revisit_count - u.change_count) + 1 > 0
                  /\ u.change_count > 0 =>
                        NegLogMicro(u.revisit_count, u.change_count) > 0

\* the estimator is about to be evaluated for a directory that changed
\* between all of its five counted visits
C40_Witness ==
    \E t \in visited :
        /\ t.revisit_count = REVISITS - 1
        /\ report_visit(t, TRUE).revisit_count = REVISITS
        /\ report_visit(t, TRUE).change_count = REVISITS
        /\ visited_task(t, TRUE).revisit_count = 0

====
